---------------------------- MODULE Spec2Model ----------------------------
(***************************************************************************)
(* The D-Bus monitoring task of gtk-status-bar (src/src/main.rs,           *)
(* monitor_dbus): the initial battery and Bluetooth snapshots, the         *)
(* dispatch loop over the message stream, the registry of Bluetooth        *)
(* devices (bluetooth_devices) and the strings sent on the battery and     *)
(* Bluetooth channels.                                                     *)
(*                                                                         *)
(* Conventions.  Option<T> is a sequence: <<>> is None, <<v>> is Some(v).  *)
(* A String is the sequence of its characters, so that chars().next() is   *)
(* Head; display strings are built with \o and ToString exactly as the     *)
(* format! calls build them.  A zvariant::Value is a record whose field t  *)
(* names the variant.  An f64 percentage is held in tenths (476 is 47.6).  *)
(* The battery glyph U+1F50B is written "U+1F50B".                         *)
(***************************************************************************)
EXTENDS Integers, Sequences, FiniteSets, TLC

VARIABLES
    pc,                 \* where monitor_dbus is
    bluetooth_devices,  \* HashMap<String, BluetoothDevice>: the record of each key
    values_order,       \* the order in which bluetooth_devices.values() yields the keys
    BLUETOOTH_SENDER,   \* TRUE once the OnceLock holds the sender
    battery_tx,         \* strings sent on the battery channel since stream.next() was last awaited
    bluetooth_tx,       \* the same for the Bluetooth channel
    msg,                \* the item stream.next() yielded in this iteration
    battery_rx,         \* strings in the battery channel: sent and not yet received
    bluetooth_rx,       \* the same for the Bluetooth channel
    battery_label,      \* the text of the battery label
    bluetooth_label,    \* the text of the Bluetooth label
    bluez_objects,      \* the interfaces org.bluez has at each of its object paths
    match_rules,        \* TRUE once the match rules are added and the stream exists
    stream,             \* the signals delivered to the connection and not yet pulled
    title_update        \* one call of format_title_string: its arguments and what it gave

\* the channels and the labels of the presentation tasks; they are left out of
\* the specification of monitor_dbus, which keeps what it sends in battery_tx
\* and bluetooth_tx, and are specified on their own in ChannelSpec
gui == <<battery_rx, bluetooth_rx, battery_label, bluetooth_label, title_update>>

\* the Bluetooth service and the bus; the specification of monitor_dbus leaves
\* them out, its stream yields any signal; StartupSpec has them
bus == <<bluez_objects, match_rules, stream>>

vars == <<pc, bluetooth_devices, values_order, BLUETOOTH_SENDER, battery_tx, bluetooth_tx, msg,
          battery_rx, bluetooth_rx, battery_label, bluetooth_label,
          bluez_objects, match_rules, stream, title_update>>

----------------------------------------------------------------------------
(* Input sets and bounds *)

\* longest interface array of an InterfacesRemoved signal
MaxRemoved == 3

None == <<>>
Some(v) == <<v>>

Dev1 == "/org/bluez/hci0/dev_1"
Dev2 == "/org/bluez/hci0/dev_2"
Paths == {Dev1, Dev2}
BatteryPath == "/org/freedesktop/UPower/devices/battery_BAT0"

PixelBuds == <<"P", "i", "x", "e", "l", " ", "B", "u", "d", "s">>
Names == {PixelBuds}

ObjectManagerIface == "org.freedesktop.DBus.ObjectManager"
PropertiesIface == "org.freedesktop.DBus.Properties"
Device1 == "org.bluez.Device1"
Battery1 == "org.bluez.Battery1"
MediaControl1 == "org.bluez.MediaControl1"
UPowerDevice == "org.freedesktop.UPower.Device"

\* values of a "Name"/"Alias" property: a string, or a value of another type
NameValues == {[t |-> "Str", chars |-> n] : n \in Names} \cup {[t |-> "U32", chars |-> <<>>]}

\* values of a "Percentage" property: BlueZ sends a byte, UPower a double
U8(n) == [t |-> "U8", n |-> n]
F64(n) == [t |-> "F64", n |-> n]
PercentageValues == {U8(60), F64(465), F64(476)}

Opt(S) == {None} \cup {Some(v) : v \in S}

\* an a{sv} of one interface, or a value that is no Dict
Device1Values == {[t |-> "Dict", Name |-> n] : n \in Opt(NameValues)}
                   \cup {[t |-> "Str", Name |-> None]}
PropsValues == {[t |-> "Dict", Percentage |-> p] : p \in Opt(PercentageValues)}
                 \cup {[t |-> "Str", Percentage |-> None]}
\* the value of org.bluez.Battery1 in InterfacesAdded
Battery1Values == {[t |-> "Dict", Percentage |-> p] : p \in Opt({U8(60), F64(476)})}
                    \cup {[t |-> "Str", Percentage |-> None]}
AnyValues == {[t |-> "Dict"]}

\* second field of InterfacesAdded: a{sa{sv}}, or a value that is no Dict
InterfacesValues ==
    {[t |-> "Dict", Device1 |-> d, MediaControl1 |-> m, Battery1 |-> b] :
        d \in Opt(Device1Values), m \in Opt(AnyValues), b \in Opt(Battery1Values)}
    \cup {[t |-> "Str", Device1 |-> None, MediaControl1 |-> None, Battery1 |-> None]}

\* first field of InterfacesAdded / InterfacesRemoved
ObjectPath(p) == [t |-> "ObjectPath", s |-> p]
Str(s) == [t |-> "Str", s |-> s]
PathValues == {ObjectPath(p) : p \in Paths}
\* a first field that is no ObjectPath
NoPathValue == Str(Dev1)

\* elements of the array of InterfacesRemoved
RemovedItems == {Str(Battery1), Str(MediaControl1), Str(Device1), Str(UPowerDevice),
                 [t |-> "U32", s |-> ""]}
\* the arrays of at most n distinct items
ArraysUpTo(S, n) ==
    UNION {{a \in [1..k -> S] : \A i, j \in 1..k : i # j => a[i] # a[j]} : k \in 0..n}
Array(a) == [t |-> "Array", items |-> a]
ArrayValues == {Array(a) : a \in ArraysUpTo(RemovedItems, MaxRemoved)}
\* a second field that is no Array
NoArrayValue == [t |-> "Str", items |-> <<>>]

\* first field of PropertiesChanged
\* a first field that is no string
NoStrValue == [t |-> "U32", s |-> ""]

Body(fs) == [structure |-> TRUE, fields |-> fs]
NotAStructure == [structure |-> FALSE, fields |-> <<>>]
Signal(path, interface, member, body) ==
    [recv |-> "Ok", path |-> path, interface |-> interface, member |-> member, body |-> body]
NoMsg == [recv |-> "None"]

Added(body) == Signal(Some("/"), Some(ObjectManagerIface), Some("InterfacesAdded"), body)
Changed(path, body) == Signal(Some(path), Some(PropertiesIface), Some("PropertiesChanged"), body)
Removed(body) == Signal(Some("/"), Some(ObjectManagerIface), Some("InterfacesRemoved"), body)

\* an a{sa{sv}} with all three interfaces of interest
FullInterfaces ==
    [t |-> "Dict",
     Device1 |-> Some([t |-> "Dict", Name |-> Some([t |-> "Str", chars |-> PixelBuds])]),
     MediaControl1 |-> Some([t |-> "Dict"]),
     Battery1 |-> Some([t |-> "Dict", Percentage |-> Some(U8(60))])]

InterfacesAddedMsgs ==
    {Added(Body(<<a, b>>)) : a \in PathValues, b \in InterfacesValues}
    \cup {Added(Body(<<NoPathValue, FullInterfaces>>))}
    \cup {Added(b) : b \in {NotAStructure, Body(<<ObjectPath(Dev1)>>)}}

NoInvalidated == Array(<<>>)

PropertiesChangedMsgs ==
    {Changed(p, Body(<<Str(i), c, NoInvalidated>>)) :
        p \in {BatteryPath, Dev1}, i \in {UPowerDevice}, c \in PropsValues}
    \cup {Changed(p, Body(<<Str(i), c, NoInvalidated>>)) :
        p \in Paths, i \in {Battery1}, c \in PropsValues}
    \cup {Changed(p, Body(<<Str(i), [t |-> "Dict", Percentage |-> None], NoInvalidated>>)) :
        p \in Paths, i \in {MediaControl1, Device1}}
    \cup {Changed(Dev1, Body(<<Str(MediaControl1), [t |-> "Str", Percentage |-> None],
                               NoInvalidated>>))}
    \cup {Changed(Dev1, b) :
        b \in {NotAStructure, Body(<<Str(Battery1)>>),
               Body(<<NoStrValue, [t |-> "Dict", Percentage |-> Some(U8(60))],
                      NoInvalidated>>)}}

InterfacesRemovedMsgs ==
    {Removed(Body(<<a, b>>)) : a \in PathValues, b \in ArrayValues}
    \cup {Removed(b) :
        b \in {NotAStructure, Body(<<ObjectPath(Dev1)>>),
               Body(<<NoPathValue, Array(<<Str(Device1)>>)>>),
               Body(<<ObjectPath(Dev1), NoArrayValue>>)}}

\* signals without one of the three classifying header fields
HeaderlessMsgs ==
    {Signal(None, Some(PropertiesIface), Some("PropertiesChanged"), NotAStructure),
     Signal(Some(Dev1), Some(PropertiesIface), None, NotAStructure),
     Signal(Some(Dev1), None, Some("PropertiesChanged"), NotAStructure)}

\* signals whose (path, interface, member) is none of the three known shapes
UnhandledMsgs ==
    {Signal(Some("/org/freedesktop/DBus"), Some("org.freedesktop.DBus"),
            Some("NameOwnerChanged"), NotAStructure),
     Signal(Some(Dev1), Some(ObjectManagerIface), Some("PropertiesChanged"), NotAStructure)}

RecvError == [recv |-> "Err"]


----------------------------------------------------------------------------
(* The registry and its records *)

BluetoothDevice(path, hb, hm, pct, name) ==
    [device_path |-> path, has_battery |-> hb, has_media |-> hm,
     battery_percentage |-> pct, device_name |-> name]

EmptyMap == [p \in {} |-> BluetoothDevice(p, FALSE, FALSE, None, None)]

\* HashMap::insert
Insert(devs, k, d) == [p \in DOMAIN devs \cup {k} |-> IF p = k THEN d ELSE devs[p]]

\* HashMap::remove
Remove(devs, k) == [p \in DOMAIN devs \ {k} |-> devs[p]]

----------------------------------------------------------------------------
(* Display derivation *)

RECURSIVE Join(_)
\* Vec<String>::join(" ") of a non-empty vector
Join(strings) ==
    IF Len(strings) = 1 THEN strings[1]
    ELSE strings[1] \o " " \o Join(Tail(strings))

\* the orders in which HashMap::values() may yield the records
ValuesOrders(devs) ==
    {o \in [1..Cardinality(DOMAIN devs) -> DOMAIN devs] :
        \A i, j \in DOMAIN o : i # j => o[i] # o[j]}

\* mutant of DeviceString: a name without a first character gives no letter
DeviceString_NoFallback(device) ==
    IF device.battery_percentage = None THEN None
    ELSE LET percentage == device.battery_percentage[1]
             first_char == IF device.device_name = None THEN "D"
                           ELSE IF device.device_name[1] = <<>> THEN ""
                           ELSE Head(device.device_name[1])
         IN  Some(first_char \o ToString(percentage))

\* the closure of filter_map: None when the device has no percentage
DeviceString(device) ==
    IF device.battery_percentage = None THEN None
    ELSE LET percentage == device.battery_percentage[1]
             first_char == IF device.device_name # None /\ device.device_name[1] # <<>>
                           THEN Head(device.device_name[1])
                           ELSE "D"
         IN  Some(first_char \o ToString(percentage))

RECURSIVE FilterMap(_, _)
FilterMap(devs, order) ==
    IF order = <<>> THEN <<>>
    ELSE DeviceString(devs[Head(order)]) \o FilterMap(devs, Tail(order))

\* mutant of compute_bluetooth_display_string: no sentinel for an empty vector
compute_bluetooth_display_string_NoSentinel(devs, order) ==
    LET device_strings == FilterMap(devs, order)
    IN  IF device_strings = <<>> THEN "" ELSE Join(device_strings)

\* compute_bluetooth_display_string, with values() iterating in the given order
compute_bluetooth_display_string(devs, order) ==
    LET device_strings == FilterMap(devs, order)
    IN  IF device_strings = <<>> THEN "No BT" ELSE Join(device_strings)

\* the orders values() may have once the map went from devs to after: a map
\* whose keys did not change keeps its order, an insert or a remove may leave
\* any order
OrdersAfter(order, devs, after) ==
    IF DOMAIN after = DOMAIN devs THEN {order} ELSE ValuesOrders(after)

\* the strings compute_bluetooth_display_string may return for a registry
DisplayStrings(devs) ==
    {compute_bluetooth_display_string(devs, o) : o \in ValuesOrders(devs)}

\* mutant of FormatPrecision0: the fraction is cut off instead of rounded
FormatPrecision0_Truncates(tenths) == ToString(tenths \div 10)

\* format!("{:.0}", x) of a non-negative x given in tenths: ties go to the even integer
FormatPrecision0(tenths) ==
    LET q == tenths \div 10
        r == tenths % 10
    IN  ToString(IF r < 5 THEN q
                 ELSE IF r > 5 THEN q + 1
                 ELSE IF q % 2 = 0 THEN q ELSE q + 1)

BatteryGlyph == "U+1F50B"

\* format!("<glyph> {:.0}%", percentage)
BatteryText(tenths) == BatteryGlyph \o " " \o FormatPrecision0(tenths) \o "%"

\* f64::try_from(value).ok()
F64TryFrom(value) == IF value.t = "F64" THEN Some(value.n) ELSE None

\* process_bluetooth_battery_percentage: u8::try_from(value).ok()
process_bluetooth_battery_percentage(value) ==
    IF value.t = "U8" THEN Some(value.n) ELSE None

\* mutant of process_bluetooth_battery_interface: without "Percentage" the
\* percentage is 0
process_bluetooth_battery_interface_DefaultsZero(battery_interface_value) ==
    IF battery_interface_value.t = "Dict"
    THEN IF battery_interface_value.Percentage = None THEN Some(0)
         ELSE process_bluetooth_battery_percentage(battery_interface_value.Percentage[1])
    ELSE None

process_bluetooth_battery_interface(battery_interface_value) ==
    IF battery_interface_value.t = "Dict"
    THEN IF battery_interface_value.Percentage = None THEN None
         ELSE process_bluetooth_battery_percentage(battery_interface_value.Percentage[1])
    ELSE None

\* process_battery_percentage: the strings it sends on the battery channel
process_battery_percentage(value) ==
    IF F64TryFrom(value) # None THEN <<BatteryText(F64TryFrom(value)[1])>> ELSE <<>>

----------------------------------------------------------------------------
(* Dispatch: classification of a stream item *)

\* the arm of the loop body that takes the item
Classify(m) ==
    IF m.recv = "None" THEN "none"
    ELSE IF m.recv = "Err" THEN "recv_error"
    ELSE IF m.path = None THEN "no_path"
    ELSE IF m.member = None THEN "no_member"
    ELSE IF m.interface = None THEN "no_interface"
    ELSE IF m.interface[1] = ObjectManagerIface /\ m.member[1] = "InterfacesAdded"
         THEN "InterfacesAdded"
    ELSE IF m.interface[1] = PropertiesIface /\ m.member[1] = "PropertiesChanged"
         THEN "PropertiesChanged"
    ELSE IF m.interface[1] = ObjectManagerIface /\ m.member[1] = "InterfacesRemoved"
         THEN "InterfacesRemoved"
    ELSE "unhandled"

\* body.deserialize::<Structure>() succeeded and fields matched a slice of n elements
HasFields(body, n) == body.structure /\ Len(body.fields) = n

----------------------------------------------------------------------------
(* InterfacesAdded *)

\* the Device1 arm: the name is taken from "Name", the record updated or created
\* mutant of AddedDevice1: the record is replaced instead of updated
AddedDevice1_Replaces(devs, object_path_value, interfaces) ==
    IF interfaces.Device1 # None /\ interfaces.Device1[1].t = "Dict"
       /\ object_path_value.t = "ObjectPath"
    THEN LET device1 == interfaces.Device1[1]
             device_name == IF device1.Name # None /\ device1.Name[1].t = "Str"
                            THEN Some(device1.Name[1].chars)
                            ELSE None
         IN  Insert(devs, object_path_value.s,
                    BluetoothDevice(object_path_value.s, FALSE, FALSE, None, device_name))
    ELSE devs

\* mutant of AddedDevice1: the name of an existing record is set only if it has none
AddedDevice1_KeepsName(devs, object_path_value, interfaces) ==
    IF interfaces.Device1 # None /\ interfaces.Device1[1].t = "Dict"
    THEN LET device1 == interfaces.Device1[1]
             device_name == IF device1.Name # None /\ device1.Name[1].t = "Str"
                            THEN Some(device1.Name[1].chars)
                            ELSE None
         IN  IF object_path_value.t = "ObjectPath"
             THEN IF object_path_value.s \in DOMAIN devs
                  THEN IF devs[object_path_value.s].device_name = None
                       THEN [devs EXCEPT ![object_path_value.s].device_name = device_name]
                       ELSE devs
                  ELSE Insert(devs, object_path_value.s,
                              BluetoothDevice(object_path_value.s, FALSE, FALSE, None,
                                              device_name))
             ELSE devs
    ELSE devs

AddedDevice1(devs, object_path_value, interfaces) ==
    IF interfaces.Device1 # None /\ interfaces.Device1[1].t = "Dict"
    THEN LET device1 == interfaces.Device1[1]
             device_name == IF device1.Name # None /\ device1.Name[1].t = "Str"
                            THEN Some(device1.Name[1].chars)
                            ELSE None
         IN  IF object_path_value.t = "ObjectPath"
             THEN IF object_path_value.s \in DOMAIN devs
                  THEN [devs EXCEPT ![object_path_value.s].device_name = device_name]
                  ELSE Insert(devs, object_path_value.s,
                              BluetoothDevice(object_path_value.s, FALSE, FALSE, None,
                                              device_name))
             ELSE devs
    ELSE devs

\* mutant of AddedMediaControl1: the record is replaced instead of updated
AddedMediaControl1_Replaces(devs, object_path_value, interfaces) ==
    IF interfaces.MediaControl1 # None /\ object_path_value.t = "ObjectPath"
    THEN Insert(devs, object_path_value.s,
                BluetoothDevice(object_path_value.s, FALSE, TRUE, None, None))
    ELSE devs

\* the MediaControl1 arm
AddedMediaControl1(devs, object_path_value, interfaces) ==
    IF interfaces.MediaControl1 # None /\ object_path_value.t = "ObjectPath"
    THEN IF object_path_value.s \in DOMAIN devs
         THEN [devs EXCEPT ![object_path_value.s].has_media = TRUE]
         ELSE Insert(devs, object_path_value.s,
                     BluetoothDevice(object_path_value.s, FALSE, TRUE, None, None))
    ELSE devs

\* mutant of AddedBattery1: only a record that is there is updated
AddedBattery1_KnownOnly(devs, object_path_value, interfaces) ==
    IF interfaces.Battery1 # None /\ object_path_value.t = "ObjectPath"
       /\ object_path_value.s \in DOMAIN devs
    THEN [devs EXCEPT ![object_path_value.s].has_battery = TRUE,
                      ![object_path_value.s].battery_percentage =
                          process_bluetooth_battery_interface(interfaces.Battery1[1])]
    ELSE devs

\* mutant of AddedBattery1: the record is replaced instead of updated
AddedBattery1_Replaces(devs, object_path_value, interfaces) ==
    IF interfaces.Battery1 # None /\ object_path_value.t = "ObjectPath"
    THEN Insert(devs, object_path_value.s,
                BluetoothDevice(object_path_value.s, TRUE, FALSE,
                                process_bluetooth_battery_interface(interfaces.Battery1[1]),
                                None))
    ELSE devs

\* the Battery1 arm
AddedBattery1(devs, object_path_value, interfaces) ==
    IF interfaces.Battery1 # None /\ object_path_value.t = "ObjectPath"
    THEN LET percentage == process_bluetooth_battery_interface(interfaces.Battery1[1])
         IN  IF object_path_value.s \in DOMAIN devs
             THEN [devs EXCEPT ![object_path_value.s].has_battery = TRUE,
                               ![object_path_value.s].battery_percentage = percentage]
             ELSE Insert(devs, object_path_value.s,
                         BluetoothDevice(object_path_value.s, TRUE, FALSE, percentage, None))
    ELSE devs

\* the Battery1 arm is the only one that sends the display string
AddedSends(object_path_value, interfaces) ==
    interfaces.Battery1 # None /\ object_path_value.t = "ObjectPath"

\* the body parses: a structure of two fields, the second a Dict
AddedParses(body) == HasFields(body, 2) /\ body.fields[2].t = "Dict"

\* the registry after the InterfacesAdded arm
AfterInterfacesAdded(devs, body) ==
    IF AddedParses(body)
    THEN AddedBattery1(
             AddedMediaControl1(
                 AddedDevice1(devs, body.fields[1], body.fields[2]),
                 body.fields[1], body.fields[2]),
             body.fields[1], body.fields[2])
    ELSE devs

----------------------------------------------------------------------------
(* PropertiesChanged *)

\* a structure of three fields, the first a string
ChangedParses(body) == HasFields(body, 3) /\ body.fields[1].t = "Str"

\* the interface the change is about, once the body parses
ChangedInterface(body) == body.fields[1].s

\* mutant of ChangedBattery1: a change for an unknown path is dropped
ChangedBattery1_KnownOnly(devs, path, changed_properties_val) ==
    IF path \in DOMAIN devs
    THEN [devs EXCEPT ![path].battery_percentage =
                          process_bluetooth_battery_interface(changed_properties_val)]
    ELSE devs

\* the org.bluez.Battery1 arm
ChangedBattery1(devs, path, changed_properties_val) ==
    LET percentage == process_bluetooth_battery_interface(changed_properties_val)
    IN  IF path \in DOMAIN devs
        THEN [devs EXCEPT ![path].battery_percentage = percentage]
        ELSE Insert(devs, path, BluetoothDevice(path, TRUE, FALSE, percentage, None))

\* mutant of ChangedMediaControl1: the record is replaced instead of updated
ChangedMediaControl1_Replaces(devs, path) ==
    Insert(devs, path, BluetoothDevice(path, FALSE, TRUE, None, None))

\* the org.bluez.MediaControl1 arm
ChangedMediaControl1(devs, path) ==
    IF path \in DOMAIN devs
    THEN [devs EXCEPT ![path].has_media = TRUE]
    ELSE Insert(devs, path, BluetoothDevice(path, FALSE, TRUE, None, None))

\* the registry after the PropertiesChanged arm
AfterPropertiesChanged(devs, path, body) ==
    IF ~ChangedParses(body) THEN devs
    ELSE IF ChangedInterface(body) = Battery1 /\ body.fields[2].t = "Dict"
         THEN ChangedBattery1(devs, path, body.fields[2])
    ELSE IF ChangedInterface(body) = MediaControl1
         THEN ChangedMediaControl1(devs, path)
    ELSE devs

\* mutant of ChangedSends: the send follows every arm
ChangedSends_AnyInterface(body) == ChangedParses(body)

\* only the org.bluez.Battery1 arm sends the display string
ChangedSends(body) ==
    ChangedParses(body) /\ ChangedInterface(body) = Battery1 /\ body.fields[2].t = "Dict"

\* mutant of ChangedBatteryTexts: the percentage of any interface's change set
\* is sent as battery text
ChangedBatteryTexts_AnyInterface(body) ==
    IF ChangedParses(body) /\ body.fields[2].t = "Dict" /\ body.fields[2].Percentage # None
    THEN process_battery_percentage(body.fields[2].Percentage[1])
    ELSE <<>>

\* mutant of ChangedBatteryTexts: a change set without a percentage sends the
\* empty battery text, as the initial query does
ChangedBatteryTexts_SendsEmpty(body) ==
    IF ChangedParses(body) /\ ChangedInterface(body) = UPowerDevice
       /\ body.fields[2].t = "Dict"
    THEN IF body.fields[2].Percentage # None
         THEN process_battery_percentage(body.fields[2].Percentage[1])
         ELSE <<"">>
    ELSE <<>>

\* the org.freedesktop.UPower.Device arm: what it sends on the battery channel
ChangedBatteryTexts(body) ==
    IF ChangedParses(body) /\ ChangedInterface(body) = UPowerDevice
       /\ body.fields[2].t = "Dict" /\ body.fields[2].Percentage # None
    THEN process_battery_percentage(body.fields[2].Percentage[1])
    ELSE <<>>

----------------------------------------------------------------------------
(* InterfacesRemoved *)

\* mutant of NothingLeft: the name is not looked at
NothingLeft_IgnoresName(device) == ~device.has_media /\ ~device.has_battery

\* the check of each arm after its clear
NothingLeft(device) ==
    ~device.has_media /\ ~device.has_battery /\ device.device_name = None

\* mutant of ClearBattery1: the percentage is kept
ClearBattery1_KeepsPercentage(device) == [device EXCEPT !.has_battery = FALSE]

\* the clear of the org.bluez.Battery1 arm
ClearBattery1(device) ==
    [device EXCEPT !.has_battery = FALSE, !.battery_percentage = None]

\* the clear of the org.bluez.MediaControl1 arm
ClearMediaControl1(device) == [device EXCEPT !.has_media = FALSE]

\* the clear of the org.bluez.Device1 arm
ClearDevice1(device) == [device EXCEPT !.device_name = None]

\* mutant of RemoveInterface: for a path that is no key, a Device1 item drops
\* every record
RemoveInterface_DropsAll(devs, object_path_str, iface) ==
    IF iface.t = "Str" /\ iface.s = Device1 /\ object_path_str \notin DOMAIN devs
    THEN EmptyMap
    ELSE devs

\* one iteration of the loop over the array: an item that is a string naming one
\* of the three interfaces clears the record found at the path, then drops it
\* if nothing is left
RemoveInterface(devs, object_path_str, iface) ==
    IF iface.t = "Str" /\ iface.s \in {Battery1, MediaControl1, Device1}
       /\ object_path_str \in DOMAIN devs
    THEN LET device == IF iface.s = Battery1 THEN ClearBattery1(devs[object_path_str])
                       ELSE IF iface.s = MediaControl1
                            THEN ClearMediaControl1(devs[object_path_str])
                       ELSE ClearDevice1(devs[object_path_str])
         IN  IF NothingLeft(device)
             THEN Remove(devs, object_path_str)
             ELSE [devs EXCEPT ![object_path_str] = device]
    ELSE devs

RECURSIVE RemoveInterfaces(_, _, _)
\* the loop over the array, in the array's order
RemoveInterfaces(devs, object_path_str, interfaces) ==
    IF interfaces = <<>> THEN devs
    ELSE RemoveInterfaces(RemoveInterface(devs, object_path_str, Head(interfaces)),
                          object_path_str, Tail(interfaces))

\* a structure of two fields, an ObjectPath and an Array
RemovedParses(body) ==
    HasFields(body, 2) /\ body.fields[1].t = "ObjectPath" /\ body.fields[2].t = "Array"

\* the registry after the InterfacesRemoved arm
AfterInterfacesRemoved(devs, body) ==
    IF RemovedParses(body)
    THEN RemoveInterfaces(devs, body.fields[1].s, body.fields[2].items)
    ELSE devs

----------------------------------------------------------------------------
(* Initial snapshot *)

\* the properties of org.bluez.Device1 in the inventory
InventoryDevice1 == [Alias : Opt(NameValues), Name : Opt(NameValues)]
\* the properties of org.bluez.Battery1 in the inventory
InventoryBattery1 == [Percentage : Opt(PercentageValues)]
\* the interfaces of one managed object
InventoryInterfaces ==
    [Device1 : Opt(InventoryDevice1), Battery1 : Opt(InventoryBattery1),
     MediaControl1 : BOOLEAN]
\* the reply of GetManagedObjects: each path is absent or has interfaces
Inventories == [Paths -> Opt(InventoryInterfaces)]

\* the name of an inventory object: "Alias", else "Name", kept if it is a string
SnapshotName(interfaces) ==
    IF interfaces.Device1 = None THEN None
    ELSE LET device_interface == interfaces.Device1[1]
             name_value == IF device_interface.Alias # None THEN device_interface.Alias
                           ELSE device_interface.Name
         IN  IF name_value # None /\ name_value[1].t = "Str"
             THEN Some(name_value[1].chars)
             ELSE None

\* the percentage of an inventory object
SnapshotPercentage(interfaces) ==
    IF interfaces.Battery1 # None /\ interfaces.Battery1[1].Percentage # None
    THEN process_bluetooth_battery_percentage(interfaces.Battery1[1].Percentage[1])
    ELSE None

\* the record the snapshot loop builds for one object
SnapshotDevice(object_path, interfaces) ==
    BluetoothDevice(object_path, interfaces.Battery1 # None, interfaces.MediaControl1,
                    SnapshotPercentage(interfaces), SnapshotName(interfaces))

\* mutant of SnapshotKeeps: a record with a name alone is not inserted
SnapshotKeeps_IgnoresName(device) == device.has_battery \/ device.has_media

\* the condition under which the snapshot loop inserts the record
SnapshotKeeps(device) ==
    device.has_battery \/ device.has_media \/ device.device_name # None

\* the registry the snapshot loop leaves
SnapshotDevices(objects) ==
    LET kept == {p \in Paths : objects[p] # None
                               /\ SnapshotKeeps(SnapshotDevice(p, objects[p][1]))}
    IN  [p \in kept |-> SnapshotDevice(p, objects[p][1])]

\* what a send of the display string appends to the Bluetooth channel:
\* nothing while BLUETOOTH_SENDER is not set
BluetoothSends(devs, order, sender) ==
    IF sender THEN <<compute_bluetooth_display_string(devs, order)>> ELSE <<>>

----------------------------------------------------------------------------
(* Actions *)

\* format_title_string is not called
NoTitle == [title |-> <<>>, max_length |-> 0, formatted |-> None]

\* the labels as create_battery_widget and create_bt_widget make them; the
\* channels as unbounded_channel() makes them
GuiInit ==
    /\ battery_rx = <<>>
    /\ bluetooth_rx = <<>>
    /\ battery_label = BatteryGlyph \o " ??%"
    /\ bluetooth_label = "No BT"
    /\ title_update = NoTitle

\* no match rule is added, nothing is delivered; no object of org.bluez is looked at
BusInit ==
    /\ bluez_objects = <<>>
    /\ match_rules = FALSE
    /\ stream = <<>>

Init ==
    /\ pc = "connect"
    /\ bluetooth_devices = EmptyMap
    /\ values_order = <<>>
    /\ BLUETOOTH_SENDER = FALSE
    /\ battery_tx = <<>>
    /\ bluetooth_tx = <<>>
    /\ msg = NoMsg
    /\ GuiInit
    /\ BusInit

\* activate: setup_bluetooth_updates runs after setup_battery_updates spawned the task
SetupBluetoothUpdates ==
    /\ ~BLUETOOTH_SENDER
    /\ BLUETOOTH_SENDER' = TRUE
    /\ UNCHANGED <<pc, bluetooth_devices, values_order, battery_tx, bluetooth_tx, msg>>
    /\ UNCHANGED gui
    /\ UNCHANGED bus

\* mutant of Connect: the empty battery text is sent before the error is returned
Connect_SendsFirst ==
    /\ pc = "connect"
    /\ pc' \in {"battery_snapshot", "connection_failed"}
    /\ battery_tx' = IF pc' = "connection_failed" THEN Append(battery_tx, "") ELSE battery_tx
    /\ UNCHANGED <<bluetooth_devices, values_order, BLUETOOTH_SENDER, bluetooth_tx, msg>>
    /\ UNCHANGED gui
    /\ UNCHANGED bus

\* Connection::system().await?: the error is returned from monitor_dbus
Connect ==
    /\ pc = "connect"
    /\ pc' \in {"battery_snapshot", "connection_failed"}
    /\ UNCHANGED <<bluetooth_devices, values_order, BLUETOOTH_SENDER, battery_tx, bluetooth_tx, msg>>
    /\ UNCHANGED gui
    /\ UNCHANGED bus

\* the replies of proxy.get(.., "Percentage"): an error, or a value of any type
BatteryReplies == Opt(PercentageValues \cup {[t |-> "Str", n |-> 0]})

\* mutant of InitialBatteryText: a value that is no double is formatted too
InitialBatteryText_FormatsAny(reply) ==
    IF reply # None THEN BatteryText(reply[1].n * 10) ELSE ""

\* battery_text: .ok().and_then(f64::try_from(..).ok()), formatted, or String::new()
InitialBatteryText(reply) ==
    IF reply # None /\ F64TryFrom(reply[1]) # None
    THEN BatteryText(F64TryFrom(reply[1])[1])
    ELSE ""

\* the initial battery query with its outcomes given: without the proxy nothing
\* is queried and nothing is sent; else the text of the reply is sent
BatterySnapshotOf(proxy_ok, reply) ==
    /\ pc = "battery_snapshot"
    /\ battery_tx' = IF proxy_ok THEN Append(battery_tx, InitialBatteryText(reply))
                                  ELSE battery_tx
    /\ pc' = "bluetooth_snapshot"
    /\ UNCHANGED <<bluetooth_devices, values_order, BLUETOOTH_SENDER, bluetooth_tx, msg>>
    /\ UNCHANGED gui
    /\ UNCHANGED bus

\* the initial battery query: the proxy may fail; get("Percentage") may fail or
\* return any value
BatterySnapshot ==
    \E proxy_ok \in BOOLEAN, reply \in BatteryReplies : BatterySnapshotOf(proxy_ok, reply)

\* the initial Bluetooth query: PropertiesProxy::new and ObjectManagerProxy::new;
\* if either fails nothing is queried and nothing is sent
BluetoothSnapshot ==
    /\ pc = "bluetooth_snapshot"
    /\ pc' \in {"get_managed_objects", "subscribe"}
    /\ UNCHANGED <<bluetooth_devices, values_order, BLUETOOTH_SENDER, battery_tx,
                   bluetooth_tx, msg>>
    /\ UNCHANGED gui
    /\ UNCHANGED bus

\* object_manager.get_managed_objects().await: Err, or Ok(objects) and the
\* snapshot loop; both arms send the display string
GetManagedObjects ==
    /\ pc = "get_managed_objects"
    /\ \/ \* Err(e)
          UNCHANGED bluetooth_devices
       \/ \* Ok(objects)
          \E objects \in Inventories : bluetooth_devices' = SnapshotDevices(objects)
    /\ values_order' \in OrdersAfter(values_order, bluetooth_devices, bluetooth_devices')
    /\ bluetooth_tx' =
          bluetooth_tx \o BluetoothSends(bluetooth_devices', values_order', BLUETOOTH_SENDER)
    /\ pc' = "subscribe"
    /\ UNCHANGED <<BLUETOOTH_SENDER, battery_tx, msg>>
    /\ UNCHANGED gui
    /\ UNCHANGED bus

\* DBusProxy::new(&connection).await? and the three match rules; a rule that
\* cannot be built or added is logged and skipped
Subscribe ==
    /\ pc = "subscribe"
    /\ pc' \in {"loop", "failed"}
    /\ UNCHANGED <<bluetooth_devices, values_order, BLUETOOTH_SENDER, battery_tx, bluetooth_tx, msg>>
    /\ UNCHANGED gui
    /\ UNCHANGED bus

\* mutant of AwaitNext: the stream is awaited again after it ended
AwaitNext_Reconnects ==
    /\ pc \in {"loop", "stopped"}
    /\ pc' = "listening"
    /\ battery_tx' = <<>>
    /\ bluetooth_tx' = <<>>
    /\ msg' = NoMsg
    /\ UNCHANGED <<bluetooth_devices, values_order, BLUETOOTH_SENDER>>
    /\ UNCHANGED gui
    /\ UNCHANGED bus

\* at the head of the loop (first entry, end of the body, or a continue):
\* stream.next() is awaited
AwaitNext ==
    /\ pc = "loop"
    /\ pc' = "listening"
    /\ battery_tx' = <<>>
    /\ bluetooth_tx' = <<>>
    /\ msg' = NoMsg
    /\ UNCHANGED <<bluetooth_devices, values_order, BLUETOOTH_SENDER>>
    /\ UNCHANGED gui
    /\ UNCHANGED bus

\* stream.next().await yields an item
Pull(m) ==
    /\ pc = "listening"
    /\ pc' = "dispatch"
    /\ msg' = m
    /\ battery_tx' = <<>>
    /\ bluetooth_tx' = <<>>
    /\ UNCHANGED <<bluetooth_devices, values_order, BLUETOOTH_SENDER>>
    /\ UNCHANGED gui
    /\ UNCHANGED bus

\* stream.next().await yields None: the loop ends and the task returns Ok(())
StreamEnd ==
    /\ pc = "listening"
    /\ pc' = "stopped"
    /\ UNCHANGED <<bluetooth_devices, values_order, BLUETOOTH_SENDER, battery_tx, bluetooth_tx, msg>>
    /\ UNCHANGED gui
    /\ UNCHANGED bus

\* mutant of Discard: an Err item is propagated and ends the task
Discard_PropagatesError ==
    /\ pc = "dispatch"
    /\ Classify(msg) \in {"recv_error", "no_path", "no_member", "no_interface", "unhandled"}
    /\ pc' = IF Classify(msg) = "recv_error" THEN "failed" ELSE "loop"
    /\ msg' = msg
    /\ UNCHANGED <<bluetooth_devices, values_order, BLUETOOTH_SENDER, battery_tx, bluetooth_tx>>
    /\ UNCHANGED gui
    /\ UNCHANGED bus

\* an Err item, a signal without path, member or interface, or an unknown triple:
\* logged, next iteration
Discard ==
    /\ pc = "dispatch"
    /\ Classify(msg) \in {"recv_error", "no_path", "no_member", "no_interface", "unhandled"}
    /\ pc' = "loop"
    /\ msg' = msg
    /\ UNCHANGED <<bluetooth_devices, values_order, BLUETOOTH_SENDER, battery_tx, bluetooth_tx>>
    /\ UNCHANGED gui
    /\ UNCHANGED bus

InterfacesAdded ==
    /\ pc = "dispatch"
    /\ Classify(msg) = "InterfacesAdded"
    /\ bluetooth_devices' = AfterInterfacesAdded(bluetooth_devices, msg.body)
    /\ values_order' \in OrdersAfter(values_order, bluetooth_devices, bluetooth_devices')
    /\ IF AddedParses(msg.body) /\ AddedSends(msg.body.fields[1], msg.body.fields[2])
       THEN bluetooth_tx' = BluetoothSends(bluetooth_devices', values_order', BLUETOOTH_SENDER)
       ELSE bluetooth_tx' = bluetooth_tx
    /\ pc' = "loop"
    /\ msg' = msg
    /\ UNCHANGED <<BLUETOOTH_SENDER, battery_tx>>
    /\ UNCHANGED gui
    /\ UNCHANGED bus

PropertiesChanged ==
    /\ pc = "dispatch"
    /\ Classify(msg) = "PropertiesChanged"
    /\ bluetooth_devices' = AfterPropertiesChanged(bluetooth_devices, msg.path[1], msg.body)
    /\ values_order' \in OrdersAfter(values_order, bluetooth_devices, bluetooth_devices')
    /\ IF ChangedSends(msg.body)
       THEN bluetooth_tx' = BluetoothSends(bluetooth_devices', values_order', BLUETOOTH_SENDER)
       ELSE bluetooth_tx' = bluetooth_tx
    /\ battery_tx' = battery_tx \o ChangedBatteryTexts(msg.body)
    /\ pc' = "loop"
    /\ msg' = msg
    /\ UNCHANGED BLUETOOTH_SENDER
    /\ UNCHANGED gui
    /\ UNCHANGED bus

InterfacesRemoved ==
    /\ pc = "dispatch"
    /\ Classify(msg) = "InterfacesRemoved"
    /\ bluetooth_devices' = AfterInterfacesRemoved(bluetooth_devices, msg.body)
    /\ values_order' \in OrdersAfter(values_order, bluetooth_devices, bluetooth_devices')
    /\ IF RemovedParses(msg.body)
       THEN bluetooth_tx' = BluetoothSends(bluetooth_devices', values_order', BLUETOOTH_SENDER)
       ELSE bluetooth_tx' = bluetooth_tx
    /\ pc' = "loop"
    /\ msg' = msg
    /\ UNCHANGED <<BLUETOOTH_SENDER, battery_tx>>
    /\ UNCHANGED gui
    /\ UNCHANGED bus

Next ==
    \/ SetupBluetoothUpdates
    \/ Connect
    \/ BatterySnapshot
    \/ BluetoothSnapshot
    \/ GetManagedObjects
    \/ Subscribe
    \/ \E m \in InterfacesAddedMsgs : Pull(m)
    \/ \E m \in PropertiesChangedMsgs : Pull(m)
    \/ \E m \in InterfacesRemovedMsgs : Pull(m)
    \/ \E m \in HeaderlessMsgs \cup UnhandledMsgs \cup {RecvError} : Pull(m)
    \/ StreamEnd
    \/ AwaitNext
    \/ Discard
    \/ InterfacesAdded
    \/ PropertiesChanged
    \/ InterfacesRemoved

Spec == Init /\ [][Next]_vars

\* the task is polled until it ends: the loop body runs to its end, without
\* awaiting anything but the stream, and the stream is awaited again
LiveSpec ==
    /\ Spec
    /\ WF_vars(Discard)
    /\ WF_vars(InterfacesAdded)
    /\ WF_vars(PropertiesChanged)
    /\ WF_vars(InterfacesRemoved)
    /\ WF_vars(AwaitNext)

----------------------------------------------------------------------------
(* The display derivation alone: compute_bluetooth_display_string is called  *)
(* on registries drawn from a bounded set, names without characters and      *)
(* records with a percentage but no battery interface included.              *)

\* calls of compute_bluetooth_display_string on one registry
DeriveCalls == 2

DeriveNames == {<<>>, PixelBuds}
DerivePercentages == {0, 60, 255}

DeriveDevices(path) ==
    {BluetoothDevice(path, hb, hm, pct, name) :
        hb \in BOOLEAN, hm \in BOOLEAN,
        pct \in Opt(DerivePercentages), name \in Opt(DeriveNames)}

\* the registries: each path is absent or has a record
Registries ==
    UNION {{devs \in [keys -> UNION {DeriveDevices(p) : p \in keys}] :
                \A p \in keys : devs[p].device_path = p} : keys \in SUBSET Paths}

DeriveInit ==
    /\ pc = "derive"
    /\ bluetooth_devices \in Registries
    /\ values_order \in ValuesOrders(bluetooth_devices)
    /\ BLUETOOTH_SENDER = TRUE
    /\ battery_tx = <<>>
    /\ bluetooth_tx = <<>>
    /\ msg = NoMsg
    /\ GuiInit
    /\ BusInit

\* mutant of Derive: every call iterates the map in an order of its own
Derive_Reorders ==
    /\ pc = "derive"
    /\ Len(bluetooth_tx) < DeriveCalls
    /\ \E o \in ValuesOrders(bluetooth_devices) :
          bluetooth_tx' =
              Append(bluetooth_tx, compute_bluetooth_display_string(bluetooth_devices, o))
    /\ UNCHANGED <<pc, bluetooth_devices, values_order, BLUETOOTH_SENDER, battery_tx, msg>>
    /\ UNCHANGED gui
    /\ UNCHANGED bus

\* let display_string = compute_bluetooth_display_string(&bluetooth_devices);
\* the string is kept in bluetooth_tx
Derive ==
    /\ pc = "derive"
    /\ Len(bluetooth_tx) < DeriveCalls
    /\ bluetooth_tx' =
          Append(bluetooth_tx,
                 compute_bluetooth_display_string(bluetooth_devices, values_order))
    /\ UNCHANGED <<pc, bluetooth_devices, values_order, BLUETOOTH_SENDER, battery_tx, msg>>
    /\ UNCHANGED gui
    /\ UNCHANGED bus

DeriveNext == Derive

DeriveSpec == DeriveInit /\ [][DeriveNext]_vars

----------------------------------------------------------------------------
(* The snapshot loop alone: the reply of GetManagedObjects is drawn from the  *)
(* inventories and msg holds it.                                              *)

ManagedObjects(objects) == [recv |-> "Reply", objects |-> objects]

PopulateInit ==
    /\ pc = "get_managed_objects"
    /\ bluetooth_devices = EmptyMap
    /\ values_order = <<>>
    /\ BLUETOOTH_SENDER = FALSE
    /\ battery_tx = <<>>
    /\ bluetooth_tx = <<>>
    /\ msg \in {ManagedObjects(objects) : objects \in Inventories}
    /\ GuiInit
    /\ BusInit

\* Ok(objects) => { for (object_path, interfaces) in objects { .. } } and the
\* send of the display string
PopulateHashMap ==
    /\ pc = "get_managed_objects"
    /\ bluetooth_devices' = SnapshotDevices(msg.objects)
    /\ values_order' \in OrdersAfter(values_order, bluetooth_devices, bluetooth_devices')
    /\ bluetooth_tx' =
          bluetooth_tx \o BluetoothSends(bluetooth_devices', values_order', BLUETOOTH_SENDER)
    /\ pc' = "subscribe"
    /\ UNCHANGED <<BLUETOOTH_SENDER, battery_tx, msg>>
    /\ UNCHANGED gui
    /\ UNCHANGED bus

PopulateNext ==
    \/ SetupBluetoothUpdates
    \/ PopulateHashMap

PopulateSpec == PopulateInit /\ [][PopulateNext]_vars

----------------------------------------------------------------------------
(* The InterfacesAdded arm alone, on registries and signals with two names.   *)

Headset == <<"H", "e", "a", "d", "s", "e", "t">>
AddedNames == {PixelBuds, Headset}

AddedDevices(path) ==
    {BluetoothDevice(path, hb, hm, pct, name) :
        hb \in BOOLEAN, hm \in BOOLEAN, pct \in Opt({60}), name \in Opt(AddedNames)}

\* the registries: each path is absent or has a record
AddedRegistries ==
    UNION {{devs \in [keys -> UNION {AddedDevices(p) : p \in keys}] :
                \A p \in keys : devs[p].device_path = p} : keys \in SUBSET Paths}

\* the signals of the stream, and signals that carry Device1 with the other name
AddedInputs ==
    InterfacesAddedMsgs
    \cup {Added(Body(<<ObjectPath(p),
                       [t |-> "Dict",
                        Device1 |-> Some([t |-> "Dict",
                                          Name |-> Some([t |-> "Str", chars |-> Headset])]),
                        MediaControl1 |-> m,
                        Battery1 |-> None]>>)) : p \in Paths, m \in Opt(AnyValues)}

AddedInit ==
    /\ pc = "dispatch"
    /\ bluetooth_devices \in AddedRegistries
    /\ values_order \in ValuesOrders(bluetooth_devices)
    /\ BLUETOOTH_SENDER = TRUE
    /\ battery_tx = <<>>
    /\ bluetooth_tx = <<>>
    /\ msg \in AddedInputs
    /\ GuiInit
    /\ BusInit

AddedNext == InterfacesAdded

AddedSpec == AddedInit /\ [][AddedNext]_vars

----------------------------------------------------------------------------
(* The start of the task together with the Bluetooth service: org.bluez adds  *)
(* and removes interfaces at its objects and emits a signal for each change;  *)
(* the bus delivers a signal to the connection only if a match rule for it    *)
(* has been added.  The task takes the inventory, then adds the rules and     *)
(* makes the stream, then handles what the stream yields.                     *)

\* signals delivered and not yet pulled
MaxStream == 2

\* the interfaces the service adds and removes
ServiceInterfaces == {Battery1, MediaControl1}

\* the reply of GetManagedObjects when the service has the given objects
InventoryOf(objects) ==
    [p \in Paths |->
        IF objects[p] = {} THEN None
        ELSE Some([Device1 |-> None,
                   Battery1 |-> IF Battery1 \in objects[p]
                                THEN Some([Percentage |-> Some(U8(60))])
                                ELSE None,
                   MediaControl1 |-> MediaControl1 \in objects[p]])]

\* the InterfacesAdded signal for one interface
AddedSignal(p, i) ==
    Added(Body(<<ObjectPath(p),
                 [t |-> "Dict",
                  Device1 |-> None,
                  MediaControl1 |-> IF i = MediaControl1 THEN Some([t |-> "Dict"]) ELSE None,
                  Battery1 |-> IF i = Battery1
                               THEN Some([t |-> "Dict", Percentage |-> Some(U8(60))])
                               ELSE None]>>))

\* the InterfacesRemoved signal for one interface
RemovedSignal(p, i) == Removed(Body(<<ObjectPath(p), Array(<<Str(i)>>)>>))

\* what the bus does with a signal: delivered if the rules are added
Delivered(signal) == IF match_rules THEN Append(stream, signal) ELSE stream

StartupInit ==
    /\ pc = "get_managed_objects"
    /\ bluetooth_devices = EmptyMap
    /\ values_order = <<>>
    /\ BLUETOOTH_SENDER = TRUE
    /\ battery_tx = <<>>
    /\ bluetooth_tx = <<>>
    /\ msg = NoMsg
    /\ GuiInit
    /\ bluez_objects \in [Paths -> SUBSET ServiceInterfaces]
    /\ match_rules = FALSE
    /\ stream = <<>>

\* org.bluez adds an interface to an object and emits InterfacesAdded
BluezAdds ==
    /\ Len(stream) < MaxStream
    /\ \E p \in Paths, i \in ServiceInterfaces :
          /\ i \notin bluez_objects[p]
          /\ bluez_objects' = [bluez_objects EXCEPT ![p] = @ \cup {i}]
          /\ stream' = Delivered(AddedSignal(p, i))
    /\ UNCHANGED <<pc, bluetooth_devices, values_order, BLUETOOTH_SENDER, battery_tx,
                   bluetooth_tx, msg, match_rules>>
    /\ UNCHANGED gui

\* org.bluez removes an interface from an object and emits InterfacesRemoved
BluezRemoves ==
    /\ Len(stream) < MaxStream
    /\ \E p \in Paths, i \in ServiceInterfaces :
          /\ i \in bluez_objects[p]
          /\ bluez_objects' = [bluez_objects EXCEPT ![p] = @ \ {i}]
          /\ stream' = Delivered(RemovedSignal(p, i))
    /\ UNCHANGED <<pc, bluetooth_devices, values_order, BLUETOOTH_SENDER, battery_tx,
                   bluetooth_tx, msg, match_rules>>
    /\ UNCHANGED gui

\* object_manager.get_managed_objects().await: Ok(objects), the snapshot loop
\* and the send
TakeInventory ==
    /\ pc = "get_managed_objects"
    /\ bluetooth_devices' = SnapshotDevices(InventoryOf(bluez_objects))
    /\ values_order' \in OrdersAfter(values_order, bluetooth_devices, bluetooth_devices')
    /\ bluetooth_tx' =
          bluetooth_tx \o BluetoothSends(bluetooth_devices', values_order', BLUETOOTH_SENDER)
    /\ pc' = "subscribe"
    /\ UNCHANGED <<BLUETOOTH_SENDER, battery_tx, msg>>
    /\ UNCHANGED gui
    /\ UNCHANGED bus

\* dbus_proxy.add_match_rule(..) for InterfacesAdded and InterfacesRemoved of
\* org.bluez, then let mut stream: zbus::MessageStream = connection.into()
AddMatchRules ==
    /\ pc = "subscribe"
    /\ match_rules' = TRUE
    /\ pc' = "loop"
    /\ UNCHANGED <<bluetooth_devices, values_order, BLUETOOTH_SENDER, battery_tx,
                   bluetooth_tx, msg, bluez_objects, stream>>
    /\ UNCHANGED gui

\* stream.next().await yields the oldest signal delivered
PullDelivered ==
    /\ pc = "listening"
    /\ stream # <<>>
    /\ msg' = Head(stream)
    /\ stream' = Tail(stream)
    /\ pc' = "dispatch"
    /\ battery_tx' = <<>>
    /\ bluetooth_tx' = <<>>
    /\ UNCHANGED <<bluetooth_devices, values_order, BLUETOOTH_SENDER, bluez_objects,
                   match_rules>>
    /\ UNCHANGED gui

StartupNext ==
    \/ BluezAdds
    \/ BluezRemoves
    \/ TakeInventory
    \/ AddMatchRules
    \/ AwaitNext
    \/ PullDelivered
    \/ InterfacesAdded
    \/ InterfacesRemoved

StartupSpec == StartupInit /\ [][StartupNext]_vars

----------------------------------------------------------------------------
(* The two unbounded channels and their presentation tasks alone: strings     *)
(* drawn from small sets are sent as monitor_dbus sends them, and received    *)
(* by the futures of setup_battery_updates and setup_bluetooth_updates.       *)
(* battery_tx and bluetooth_tx hold every string sent so far.                 *)

\* strings sent on one channel
MaxSent == 3

BatteryUpdates == {"", BatteryText(465)}
BluetoothUpdates == {"No BT", "P60"}

ChannelInit ==
    /\ pc = "channel"
    /\ bluetooth_devices = EmptyMap
    /\ values_order = <<>>
    /\ BLUETOOTH_SENDER = FALSE
    /\ battery_tx = <<>>
    /\ bluetooth_tx = <<>>
    /\ msg = NoMsg
    /\ GuiInit
    /\ BusInit

\* mutant of send_battery_update: a channel of capacity 1, the send waits for room
send_battery_update_Bounded(update) ==
    /\ pc = "channel"
    /\ Len(battery_tx) < MaxSent
    /\ Len(battery_rx) < 1
    /\ battery_rx' = Append(battery_rx, update)
    /\ battery_tx' = Append(battery_tx, update)
    /\ UNCHANGED <<pc, bluetooth_devices, values_order, BLUETOOTH_SENDER, bluetooth_tx, msg,
                   bluetooth_rx, battery_label, bluetooth_label, title_update>>
    /\ UNCHANGED bus

\* BATTERY_SENDER.get() is Some (set before the task is spawned);
\* UnboundedSender::send appends to the channel and returns
send_battery_update(update) ==
    /\ pc = "channel"
    /\ Len(battery_tx) < MaxSent
    /\ battery_rx' = Append(battery_rx, update)
    /\ battery_tx' = Append(battery_tx, update)
    /\ UNCHANGED <<pc, bluetooth_devices, values_order, BLUETOOTH_SENDER, bluetooth_tx, msg,
                   bluetooth_rx, battery_label, bluetooth_label, title_update>>
    /\ UNCHANGED bus

SendBattery == \E update \in BatteryUpdates : send_battery_update(update)

\* if let Some(sender) = BLUETOOTH_SENDER.get() { sender.send(display_string) }
SendBluetooth ==
    /\ pc = "channel"
    /\ BLUETOOTH_SENDER
    /\ Len(bluetooth_tx) < MaxSent
    /\ \E display_string \in BluetoothUpdates :
          /\ bluetooth_rx' = Append(bluetooth_rx, display_string)
          /\ bluetooth_tx' = Append(bluetooth_tx, display_string)
    /\ UNCHANGED <<pc, bluetooth_devices, values_order, BLUETOOTH_SENDER, battery_tx, msg,
                   battery_rx, battery_label, bluetooth_label, title_update>>
    /\ UNCHANGED bus

\* mutant of BatteryRecv: the newest string is received and the older ones dropped
BatteryRecv_TakesNewest ==
    /\ battery_rx # <<>>
    /\ battery_label' = battery_rx[Len(battery_rx)]
    /\ battery_rx' = <<>>
    /\ UNCHANGED <<pc, bluetooth_devices, values_order, BLUETOOTH_SENDER, battery_tx,
                   bluetooth_tx, msg, bluetooth_rx, bluetooth_label, title_update>>
    /\ UNCHANGED bus

\* while let Some(update) = rx.recv().await { label.set_text(&update) }
BatteryRecv ==
    /\ battery_rx # <<>>
    /\ battery_label' = Head(battery_rx)
    /\ battery_rx' = Tail(battery_rx)
    /\ UNCHANGED <<pc, bluetooth_devices, values_order, BLUETOOTH_SENDER, battery_tx,
                   bluetooth_tx, msg, bluetooth_rx, bluetooth_label, title_update>>
    /\ UNCHANGED bus

\* while let Some(update) = rx.recv().await { label.set_text(&update) }
BluetoothRecv ==
    /\ bluetooth_rx # <<>>
    /\ bluetooth_label' = Head(bluetooth_rx)
    /\ bluetooth_rx' = Tail(bluetooth_rx)
    /\ UNCHANGED <<pc, bluetooth_devices, values_order, BLUETOOTH_SENDER, battery_tx,
                   bluetooth_tx, msg, battery_rx, battery_label, title_update>>
    /\ UNCHANGED bus

ChannelNext ==
    \/ SetupBluetoothUpdates
    \/ SendBattery
    \/ SendBluetooth
    \/ BatteryRecv
    \/ BluetoothRecv

ChannelSpec == ChannelInit /\ [][ChannelNext]_vars

\* the task of monitor_dbus is polled and activate runs to its end; nothing is
\* assumed of the presentation tasks
ProducerSpec ==
    /\ ChannelSpec
    /\ WF_vars(SetupBluetoothUpdates)
    /\ WF_vars(SendBattery)
    /\ WF_vars(SendBluetooth)

\* the glib main context polls the two presentation futures; nothing is assumed
\* of the task of monitor_dbus
ConsumerSpec ==
    /\ ChannelSpec
    /\ WF_vars(BatteryRecv)
    /\ WF_vars(BluetoothRecv)

----------------------------------------------------------------------------
(* format_title_string, the pure function that crops a window title.  A      *)
(* usize is a value modulo 2^64, written by its representative nearest zero: *)
(* -1 is usize::MAX.  A title is the sequence of its characters; the byte    *)
(* indices of char_indices() are character boundaries, so slicing at them is *)
(* slicing at the character positions.  The ellipsis U+2026 is written       *)
(* "U+2026".                                                                  *)

\* longest title, in characters
MaxTitle == 4

\* largest max_length
MaxLength == 5

TitleChars == {"a", "b"}
Titles == UNION {[1..n -> TitleChars] : n \in 0..MaxTitle}

Ellipsis == "U+2026"

\* a < b of two usize values
UsizeLess(a, b) == IF (a < 0) = (b < 0) THEN a < b ELSE b < 0

\* the call unwinds
Panicked == [panic |-> TRUE, chars |-> <<>>]

\* the call returns the string
Returned(chars) == [panic |-> FALSE, chars |-> chars]

\* title.char_indices().nth(n).map(|(idx, _)| idx)
CharIndexNth(title, n) == IF n >= 0 /\ n < Len(title) THEN Some(n) ELSE None

\* Option::unwrap_or
unwrap_or(option, default) == IF option = None THEN default ELSE option[1]

\* &title[..idx] and &title[idx..] panic when idx is past the end
SliceInBounds(title, idx) == idx >= 0 /\ idx <= Len(title)

\* format_title_string as one build runs it: with overflow-checks (the dev
\* profile) a usize subtraction whose result would be negative panics,
\* without them (the release profile) it wraps
format_title_string_built(title, max_length, overflow_checks) ==
    LET count == Len(title)
        chars_left == (max_length \div 2) - 1
        chars_right == max_length - chars_left
        crop_from_idx == unwrap_or(CharIndexNth(title, chars_left), chars_left)
        crop_to_idx == unwrap_or(CharIndexNth(title, count - chars_right), count)
    IN  IF count <= max_length
        THEN Returned(title)
        ELSE IF /\ overflow_checks
                /\ \/ UsizeLess(max_length \div 2, 1)
                   \/ UsizeLess(max_length, chars_left)
                   \/ UsizeLess(count, chars_right)
        THEN Panicked
        ELSE IF ~SliceInBounds(title, crop_from_idx) \/ ~SliceInBounds(title, crop_to_idx)
        THEN Panicked
        ELSE Returned(SubSeq(title, 1, crop_from_idx) \o <<Ellipsis>>
                        \o SubSeq(title, crop_to_idx + 1, count))

\* what format_title_string(title, max_length) can do, over the builds
format_title_string(title, max_length) ==
    {format_title_string_built(title, max_length, overflow_checks) :
        overflow_checks \in BOOLEAN}

TitleInit ==
    /\ pc = "title"
    /\ bluetooth_devices = EmptyMap
    /\ values_order = <<>>
    /\ BLUETOOTH_SENDER = FALSE
    /\ battery_tx = <<>>
    /\ bluetooth_tx = <<>>
    /\ msg = NoMsg
    /\ battery_rx = <<>>
    /\ bluetooth_rx = <<>>
    /\ battery_label = BatteryGlyph \o " ??%"
    /\ bluetooth_label = "No BT"
    /\ BusInit
    /\ title_update \in [title : Titles, max_length : 0..MaxLength, formatted : {None}]

\* the call of format_title_string
FormatTitle ==
    /\ pc = "title"
    /\ title_update.formatted = None
    /\ \E outcome \in format_title_string(title_update.title, title_update.max_length) :
          title_update' = [title_update EXCEPT !.formatted = Some(outcome)]
    /\ UNCHANGED <<pc, bluetooth_devices, values_order, BLUETOOTH_SENDER, battery_tx,
                   bluetooth_tx, msg, battery_rx, bluetooth_rx, battery_label,
                   bluetooth_label>>
    /\ UNCHANGED bus

TitleNext == FormatTitle

TitleSpec == TitleInit /\ [][TitleNext]_vars

----------------------------------------------------------------------------
(* Properties *)

\* the interfaces of interest
InterfacesOfInterest == {Device1, Battery1, MediaControl1}

\* the interfaces of interest that message m carries for path p
CarriedInterfaces(m, p) ==
    IF Classify(m) = "InterfacesAdded" /\ AddedParses(m.body)
       /\ m.body.fields[1] = ObjectPath(p)
    THEN {i \in InterfacesOfInterest :
            \/ i = Device1 /\ m.body.fields[2].Device1 # None
            \/ i = Battery1 /\ m.body.fields[2].Battery1 # None
            \/ i = MediaControl1 /\ m.body.fields[2].MediaControl1 # None}
    ELSE IF Classify(m) = "PropertiesChanged" /\ ChangedParses(m.body) /\ m.path[1] = p
    THEN {ChangedInterface(m.body)} \cap InterfacesOfInterest
    ELSE {}

\* the interface names an InterfacesRemoved array lists
ListedInterfaces(items) == {items[i].s : i \in {j \in DOMAIN items : items[j].t = "Str"}}

\* the interfaces a record currently has
InterfacesOf(device) ==
    (IF device.device_name # None THEN {Device1} ELSE {})
    \cup (IF device.has_battery THEN {Battery1} ELSE {})
    \cup (IF device.has_media THEN {MediaControl1} ELSE {})

\* a record with the fields of the listed interfaces cleared
ClearedOf(device, listed) ==
    [device_path |-> device.device_path,
     has_battery |-> device.has_battery /\ Battery1 \notin listed,
     has_media |-> device.has_media /\ MediaControl1 \notin listed,
     battery_percentage |-> IF Battery1 \in listed THEN None ELSE device.battery_percentage,
     device_name |-> IF Device1 \in listed THEN None ELSE device.device_name]

\* the fields the Bluetooth summary depends on
SummaryFields(devs) ==
    [p \in DOMAIN devs |-> <<devs[p].battery_percentage, devs[p].device_name>>]

\* the tokens a display string can be made of, and the token lists of a summary
Tokens == {c \o ToString(v.n) : c \in {"D"} \cup {Head(n) : n \in Names \ {<<>>}},
                                v \in {x \in PercentageValues : x.t = "U8"}}
TokenLists == UNION {[1..k -> Tokens] : k \in 1..Cardinality(Paths)}

\* the string is a space-joined list of tokens, one of which is the given token
ContainsToken(string, token) ==
    \E ts \in TokenLists : Join(ts) = string /\ \E i \in DOMAIN ts : ts[i] = token

\* the handler of the current item sent exactly one Bluetooth string, having the
\* token; while BLUETOOTH_SENDER is unset every send is skipped
SentWithToken(token) ==
    IF BLUETOOTH_SENDER
    THEN Len(bluetooth_tx') = 1 /\ ContainsToken(bluetooth_tx'[1], token)
    ELSE bluetooth_tx' = <<>>

\* the step is the handling of the current item by the loop body
Handles == pc = "dispatch" /\ pc' = "loop"

\* C1: every record of the registry has the battery interface, the media
\* interface or a name.
RegistryInvariant ==
    \A p \in DOMAIN bluetooth_devices :
        \/ bluetooth_devices[p].has_battery
        \/ bluetooth_devices[p].has_media
        \/ bluetooth_devices[p].device_name # None

\* C2: InterfacesAdded and PropertiesChanged keep every record, and change on it
\* only the fields of the interfaces the message carries for its path; a message
\* carrying only MediaControl1 leaves the record with has_media set.
MergeMonotonicity ==
    [][(Handles /\ Classify(msg) \in {"InterfacesAdded", "PropertiesChanged"}) =>
        \A p \in DOMAIN bluetooth_devices :
            /\ p \in DOMAIN bluetooth_devices'
            /\ LET old == bluetooth_devices[p]
                   new == bluetooth_devices'[p]
                   carried == CarriedInterfaces(msg, p)
               IN  /\ Device1 \notin carried => new.device_name = old.device_name
                   /\ Battery1 \notin carried =>
                        /\ new.has_battery = old.has_battery
                        /\ new.battery_percentage = old.battery_percentage
                   /\ MediaControl1 \notin carried => new.has_media = old.has_media
                   /\ carried = {MediaControl1} => new.has_media]_vars

\* C2 witness: InterfacesAdded carrying only MediaControl1 was handled for a record
\* that has a name and battery information.
MergeMonotonicityWitness ==
    /\ pc = "loop"
    /\ Classify(msg) = "InterfacesAdded"
    /\ CarriedInterfaces(msg, Dev1) = {MediaControl1}
    /\ Dev1 \in DOMAIN bluetooth_devices
    /\ bluetooth_devices[Dev1].device_name = Some(PixelBuds)
    /\ bluetooth_devices[Dev1].has_battery
    /\ bluetooth_devices[Dev1].battery_percentage = Some(60)
    /\ bluetooth_devices[Dev1].has_media

\* C3: an InterfacesRemoved that lists every interface the record at its path
\* has leaves the path out of the registry.
GarbageCollection ==
    [][(/\ Handles
        /\ Classify(msg) = "InterfacesRemoved"
        /\ RemovedParses(msg.body)
        /\ msg.body.fields[1].s \in DOMAIN bluetooth_devices
        /\ InterfacesOf(bluetooth_devices[msg.body.fields[1].s])
              \subseteq ListedInterfaces(msg.body.fields[2].items))
       => msg.body.fields[1].s \notin DOMAIN bluetooth_devices']_vars

\* C4: a record leaves the registry only in the handling of an InterfacesRemoved
\* for its own path, and only if the listed clears leave it without battery,
\* media and name.
NeverCollectedEarly ==
    [][\A p \in DOMAIN bluetooth_devices \ DOMAIN bluetooth_devices' :
          /\ Handles
          /\ Classify(msg) = "InterfacesRemoved"
          /\ RemovedParses(msg.body)
          /\ msg.body.fields[1] = ObjectPath(p)
          /\ InterfacesOf(ClearedOf(bluetooth_devices[p],
                                    ListedInterfaces(msg.body.fields[2].items))) = {}]_vars

\* C4 witness: an InterfacesRemoved listing the battery and the media interface
\* was handled for a record with a name, and the record is still there.
NeverCollectedEarlyWitness ==
    /\ pc = "loop"
    /\ Classify(msg) = "InterfacesRemoved"
    /\ RemovedParses(msg.body)
    /\ msg.body.fields[1] = ObjectPath(Dev1)
    /\ ListedInterfaces(msg.body.fields[2].items) = {Battery1, MediaControl1}
    /\ Dev1 \in DOMAIN bluetooth_devices
    /\ bluetooth_devices[Dev1] = BluetoothDevice(Dev1, FALSE, FALSE, None, Some(PixelBuds))

\* C5: with the sender set, a handler that changes a percentage, a name or the
\* set of records, so that the registry's display string changes, sends the
\* display string of the registry it leaves.
BluetoothEmission ==
    [][(/\ Handles
        /\ BLUETOOTH_SENDER
        /\ SummaryFields(bluetooth_devices') # SummaryFields(bluetooth_devices)
        /\ DisplayStrings(bluetooth_devices') # DisplayStrings(bluetooth_devices))
       => /\ bluetooth_tx' # <<>>
          /\ bluetooth_tx'[Len(bluetooth_tx')] \in DisplayStrings(bluetooth_devices')]_vars


\* C6: InterfacesAdded at a path that is not in the registry, carrying Device1
\* with name n and Battery1 with percentage p and no MediaControl1, adds exactly
\* the record (has_battery, p, n, no media) and, the sender being set, sends one
\* string that has the token made of the first character of n and of p.
ScenarioB ==
    [][(/\ Handles
        /\ Classify(msg) = "InterfacesAdded"
        /\ AddedParses(msg.body)
        /\ msg.body.fields[1].t = "ObjectPath"
        /\ msg.body.fields[1].s \notin DOMAIN bluetooth_devices
        /\ msg.body.fields[2].MediaControl1 = None
        /\ msg.body.fields[2].Device1 # None
        /\ msg.body.fields[2].Device1[1].t = "Dict"
        /\ msg.body.fields[2].Device1[1].Name # None
        /\ msg.body.fields[2].Device1[1].Name[1].t = "Str"
        /\ msg.body.fields[2].Battery1 # None
        /\ msg.body.fields[2].Battery1[1].t = "Dict"
        /\ msg.body.fields[2].Battery1[1].Percentage # None
        /\ msg.body.fields[2].Battery1[1].Percentage[1].t = "U8")
       => LET path == msg.body.fields[1].s
              n == msg.body.fields[2].Device1[1].Name[1].chars
              p == msg.body.fields[2].Battery1[1].Percentage[1].n
          IN  /\ bluetooth_devices' =
                    Insert(bluetooth_devices, path,
                           BluetoothDevice(path, TRUE, FALSE, Some(p), Some(n)))
              /\ SentWithToken(Head(n) \o ToString(p))]_vars

\* C6 witness: the InterfacesAdded of Scenario B was handled with the sender set;
\* the registry holds the one record and "P60" was sent.
ScenarioBWitness ==
    /\ pc = "loop"
    /\ BLUETOOTH_SENDER
    /\ msg = Added(Body(<<ObjectPath(Dev1),
                          [t |-> "Dict",
                           Device1 |-> Some([t |-> "Dict",
                                             Name |-> Some([t |-> "Str",
                                                            chars |-> PixelBuds])]),
                           MediaControl1 |-> None,
                           Battery1 |-> Some([t |-> "Dict",
                                              Percentage |-> Some(U8(60))])]>>))
    /\ DOMAIN bluetooth_devices = {Dev1}
    /\ bluetooth_devices[Dev1] = BluetoothDevice(Dev1, TRUE, FALSE, Some(60), Some(PixelBuds))
    /\ bluetooth_tx = <<"P60">>

\* C7: InterfacesRemoved leaves the records of other paths as they are, and a
\* record it keeps at its path has the fields of the listed interfaces cleared
\* and the others unchanged; when it lists only Battery1 for a record with a
\* name, the record stays with its name and the string sent, the sender being
\* set, is the display string of the other records.
ScenarioC ==
    [][(/\ Handles
        /\ Classify(msg) = "InterfacesRemoved"
        /\ RemovedParses(msg.body)
        /\ msg.body.fields[1].s \in DOMAIN bluetooth_devices)
       => LET path == msg.body.fields[1].s
              listed == ListedInterfaces(msg.body.fields[2].items)
              old == bluetooth_devices[path]
          IN  /\ \A q \in DOMAIN bluetooth_devices \ {path} :
                    /\ q \in DOMAIN bluetooth_devices'
                    /\ bluetooth_devices'[q] = bluetooth_devices[q]
              /\ DOMAIN bluetooth_devices' \subseteq DOMAIN bluetooth_devices
              /\ path \in DOMAIN bluetooth_devices' =>
                    bluetooth_devices'[path] = ClearedOf(old, listed)
              /\ (listed = {Battery1} /\ old.device_name # None) =>
                    /\ path \in DOMAIN bluetooth_devices'
                    /\ bluetooth_devices'[path].device_name = old.device_name
                    /\ BLUETOOTH_SENDER =>
                          /\ Len(bluetooth_tx') = 1
                          /\ bluetooth_tx'[1] \in
                                DisplayStrings(Remove(bluetooth_devices', path))]_vars

\* C7 witness: an InterfacesRemoved listing only Battery1 was handled for a
\* record with a name; the record is left with its name alone and "No BT" was
\* sent.
ScenarioCWitness ==
    /\ pc = "loop"
    /\ BLUETOOTH_SENDER
    /\ msg = Removed(Body(<<ObjectPath(Dev1), Array(<<Str(Battery1)>>)>>))
    /\ DOMAIN bluetooth_devices = {Dev1}
    /\ bluetooth_devices[Dev1] = BluetoothDevice(Dev1, FALSE, FALSE, None, Some(PixelBuds))
    /\ bluetooth_tx = <<"No BT">>

\* C8: PropertiesChanged for Battery1 with percentage p at a path that is not in
\* the registry adds the record (has_battery, p, no media, no name) and, the
\* sender being set, sends one string that has the token "D" followed by p.
ScenarioF ==
    [][(/\ Handles
        /\ Classify(msg) = "PropertiesChanged"
        /\ ChangedParses(msg.body)
        /\ ChangedInterface(msg.body) = Battery1
        /\ msg.body.fields[2].t = "Dict"
        /\ msg.body.fields[2].Percentage # None
        /\ msg.body.fields[2].Percentage[1].t = "U8"
        /\ msg.path[1] \notin DOMAIN bluetooth_devices)
       => LET path == msg.path[1]
              p == msg.body.fields[2].Percentage[1].n
          IN  /\ bluetooth_devices' =
                    Insert(bluetooth_devices, path,
                           BluetoothDevice(path, TRUE, FALSE, Some(p), None))
              /\ SentWithToken("D" \o ToString(p))]_vars

\* C8 witness: the PropertiesChanged of Scenario F was handled with the sender
\* set, next to a record of another path; both tokens were sent.
ScenarioFWitness ==
    /\ pc = "loop"
    /\ BLUETOOTH_SENDER
    /\ msg = Changed(Dev2, Body(<<Str(Battery1),
                                  [t |-> "Dict", Percentage |-> Some(U8(60))],
                                  NoInvalidated>>))
    /\ DOMAIN bluetooth_devices = {Dev1, Dev2}
    /\ bluetooth_devices[Dev1] = BluetoothDevice(Dev1, TRUE, FALSE, Some(60), Some(PixelBuds))
    /\ bluetooth_devices[Dev2] = BluetoothDevice(Dev2, TRUE, FALSE, Some(60), None)
    /\ bluetooth_tx \in {<<"P60 D60">>, <<"D60 P60">>}

\* the integers that a percentage given in tenths rounds to
RoundingsOf(tenths) ==
    {r \in 0..((tenths \div 10) + 1) : 10 * r - tenths \in -5..5}

\* C9: PropertiesChanged for the UPower device interface whose change set has
\* the percentage p (a double) sends exactly one string on the battery channel,
\* the glyph, a space, p rounded to an integer and "%", and nothing on the
\* Bluetooth channel.
BatteryEmission ==
    [][(/\ Handles
        /\ Classify(msg) = "PropertiesChanged"
        /\ ChangedParses(msg.body)
        /\ ChangedInterface(msg.body) = UPowerDevice
        /\ msg.body.fields[2].t = "Dict"
        /\ msg.body.fields[2].Percentage # None
        /\ msg.body.fields[2].Percentage[1].t = "F64")
       => /\ \E r \in RoundingsOf(msg.body.fields[2].Percentage[1].n) :
                battery_tx' = <<BatteryGlyph \o " " \o ToString(r) \o "%">>
          /\ bluetooth_tx' = <<>>
          /\ bluetooth_devices' = bluetooth_devices]_vars

\* C9 witness: a PropertiesChanged of the system battery with percentage 47.6 was
\* handled and the text with 48 was sent.
BatteryEmissionWitness ==
    /\ pc = "loop"
    /\ msg = Changed(BatteryPath, Body(<<Str(UPowerDevice),
                                         [t |-> "Dict", Percentage |-> Some(F64(476))],
                                         NoInvalidated>>))
    /\ battery_tx = <<BatteryGlyph \o " 48%">>
    /\ bluetooth_tx = <<>>

\* C10: PropertiesChanged for the UPower device interface whose change set has no
\* percentage sends nothing on the battery channel.
BatteryQuiet ==
    [][(/\ Handles
        /\ Classify(msg) = "PropertiesChanged"
        /\ ChangedParses(msg.body)
        /\ ChangedInterface(msg.body) = UPowerDevice
        /\ msg.body.fields[2].t = "Dict"
        /\ msg.body.fields[2].Percentage = None)
       => battery_tx' = <<>> /\ battery_tx = <<>>]_vars

\* C10 witness: a PropertiesChanged of the system battery without a percentage
\* was handled and the battery channel got nothing.
BatteryQuietWitness ==
    /\ pc = "loop"
    /\ msg = Changed(BatteryPath, Body(<<Str(UPowerDevice),
                                         [t |-> "Dict", Percentage |-> None],
                                         NoInvalidated>>))
    /\ battery_tx = <<>>

\* C11: a derived string is "No BT" exactly when no record of the registry has
\* a percentage.
NoBTSentinel ==
    pc = "derive" =>
        \A i \in DOMAIN bluetooth_tx :
            bluetooth_tx[i] = "No BT"
                <=> \A p \in DOMAIN bluetooth_devices :
                        bluetooth_devices[p].battery_percentage = None

\* C11 witness: "No BT" was derived from a registry of a named record and a
\* record with media control, neither with a percentage.
NoBTSentinelWitness ==
    /\ pc = "derive"
    /\ bluetooth_tx # <<>>
    /\ bluetooth_tx[1] = "No BT"
    /\ DOMAIN bluetooth_devices = Paths
    /\ bluetooth_devices[Dev1].device_name = Some(PixelBuds)
    /\ bluetooth_devices[Dev2].has_media

\* the token expected of a record with a percentage
ExpectedToken(device) ==
    (IF device.device_name \in {None, Some(<<>>)} THEN "D"
     ELSE device.device_name[1][1])
    \o ToString(device.battery_percentage[1])

RECURSIVE Spaced(_)
\* the tokens with one space between neighbours
Spaced(tokens) ==
    IF Len(tokens) = 1 THEN tokens[1]
    ELSE Spaced(SubSeq(tokens, 1, Len(tokens) - 1)) \o " " \o tokens[Len(tokens)]

\* C12: when some record has a percentage, a derived string is the tokens of
\* the records with a percentage, each once and in some order, with one space
\* between neighbours; a token is the first character of the name, or D when
\* the name is absent or has no character, followed by the percentage.
TokenPerRecord ==
    LET shown == {p \in DOMAIN bluetooth_devices :
                    bluetooth_devices[p].battery_percentage # None}
    IN  (pc = "derive" /\ shown # {}) =>
            \A i \in DOMAIN bluetooth_tx :
                \E o \in [1..Cardinality(shown) -> shown] :
                    /\ \A j, k \in DOMAIN o : j # k => o[j] # o[k]
                    /\ bluetooth_tx[i] =
                          Spaced([j \in DOMAIN o |-> ExpectedToken(bluetooth_devices[o[j]])])

\* C12 witness: a string was derived from a named record with a percentage, a
\* record whose name has no character and a percentage.
TokenPerRecordWitness ==
    /\ pc = "derive"
    /\ bluetooth_tx # <<>>
    /\ bluetooth_tx[1] \in {"P60 D0", "D0 P60"}
    /\ DOMAIN bluetooth_devices = Paths
    /\ bluetooth_devices[Dev1].device_name = Some(PixelBuds)
    /\ bluetooth_devices[Dev1].battery_percentage = Some(60)
    /\ bluetooth_devices[Dev2].device_name = Some(<<>>)
    /\ bluetooth_devices[Dev2].battery_percentage = Some(0)

IsAdded(m) ==
    /\ m.recv = "Ok" /\ m.path # None
    /\ m.interface = Some(ObjectManagerIface) /\ m.member = Some("InterfacesAdded")
IsChanged(m) ==
    /\ m.recv = "Ok" /\ m.path # None
    /\ m.interface = Some(PropertiesIface) /\ m.member = Some("PropertiesChanged")
IsRemoved(m) ==
    /\ m.recv = "Ok" /\ m.path # None
    /\ m.interface = Some(ObjectManagerIface) /\ m.member = Some("InterfacesRemoved")

\* the body is a structure of fields of the given types
HasShape(body, types) ==
    /\ body.structure
    /\ Len(body.fields) = Len(types)
    /\ \A i \in DOMAIN types : body.fields[i].t = types[i]

\* a receive error, or a known signal whose body has not the shape of its kind
Unparsable(m) ==
    \/ m.recv = "Err"
    \/ IsAdded(m) /\ ~HasShape(m.body, <<"ObjectPath", "Dict">>)
    \/ IsChanged(m) /\ ~HasShape(m.body, <<"Str", "Dict", "Array">>)
    \/ IsRemoved(m) /\ ~HasShape(m.body, <<"ObjectPath", "Array">>)

\* C14: the handling of a receive error or of a known signal with an
\* unparsable body leaves the registry as it is, sends nothing on either
\* channel and returns to the head of the loop.
ParseFailureIsNoOp ==
    [][(pc = "dispatch" /\ pc' # "dispatch" /\ Unparsable(msg))
       => /\ pc' = "loop"
          /\ bluetooth_devices' = bluetooth_devices
          /\ battery_tx' = <<>>
          /\ bluetooth_tx' = <<>>]_vars

\* a signal the loop does not understand
NotUnderstood(m) ==
    /\ m.recv = "Ok"
    /\ \/ m.path = None
       \/ m.interface = None
       \/ m.member = None
       \/ ~IsAdded(m) /\ ~IsChanged(m) /\ ~IsRemoved(m)
       \/ /\ IsChanged(m)
          /\ HasShape(m.body, <<"Str", "Dict", "Array">>)
          /\ m.body.fields[1].s \notin {UPowerDevice, Battery1, MediaControl1}

\* C15: the handling of a signal without path, interface or member, of a
\* signal of an unknown triple, or of a PropertiesChanged naming another
\* interface than the three handled ones leaves the registry as it is, sends
\* nothing on either channel and returns to the head of the loop.
UnknownIsNoOp ==
    [][(pc = "dispatch" /\ pc' # "dispatch" /\ NotUnderstood(msg))
       => /\ pc' = "loop"
          /\ bluetooth_devices' = bluetooth_devices
          /\ battery_tx' = <<>>
          /\ bluetooth_tx' = <<>>]_vars

\* C15 witness: a PropertiesChanged naming org.bluez.Device1 was handled for
\* the path of a record, with the sender set, and nothing was sent.
UnknownIsNoOpWitness ==
    /\ pc = "loop"
    /\ BLUETOOTH_SENDER
    /\ msg = Changed(Dev1, Body(<<Str(Device1), [t |-> "Dict", Percentage |-> None],
                                  NoInvalidated>>))
    /\ Dev1 \in DOMAIN bluetooth_devices
    /\ bluetooth_devices[Dev1].battery_percentage = Some(60)
    /\ battery_tx = <<>>
    /\ bluetooth_tx = <<>>

\* C16: once the loop is entered, it is left only from the wait for the
\* stream, when the stream ends; and every item the stream delivers is handled
\* and the stream awaited again.
LoopNeverStalls ==
    /\ [][(pc \in {"loop", "listening", "dispatch"}) =>
            (pc' \in {"loop", "listening", "dispatch"}
             \/ (pc = "listening" /\ pc' = "stopped"))]_vars
    /\ (pc = "dispatch") ~> (pc = "listening")

\* C16 witness: an item that was a receive error was handled and the loop is
\* at its head again.
LoopNeverStallsWitness ==
    /\ pc = "loop"
    /\ msg = RecvError
    /\ bluetooth_devices # EmptyMap

\* C17: once the stream ended, the task stays ended, the registry is not
\* changed and nothing is sent on either channel.
StoppedIsTerminal ==
    [][pc = "stopped" =>
        /\ pc' = "stopped"
        /\ bluetooth_devices' = bluetooth_devices
        /\ battery_tx' = battery_tx
        /\ bluetooth_tx' = bluetooth_tx]_vars

\* C17 witness: the stream ended while the registry held a record and the
\* sender was not set yet.
StoppedIsTerminalWitness ==
    /\ pc = "stopped"
    /\ bluetooth_devices # EmptyMap
    /\ ~BLUETOOTH_SENDER

\* C18: the subscription setup never ends the task: from it the dispatch loop
\* is entered.
SubscriptionNonFatal ==
    [][pc = "subscribe" => pc' \in {"subscribe", "loop"}]_vars

\* C19: when the dispatch loop is entered, before the first item is pulled,
\* exactly one string was sent on the battery channel and exactly one on the
\* Bluetooth channel.
StartupEmission ==
    (pc = "loop" /\ msg = NoMsg) => (Len(battery_tx) = 1 /\ Len(bluetooth_tx) = 1)

\* C20: with the sender set, an initial Bluetooth query that fails, in the
\* construction of a proxy or in get_managed_objects, leaves the registry
\* empty, sends "No BT" and goes on to the subscription setup.
InventoryFailureEmits ==
    [][(/\ pc \in {"bluetooth_snapshot", "get_managed_objects"}
        /\ pc' = "subscribe"
        /\ BLUETOOTH_SENDER
        /\ bluetooth_devices' = bluetooth_devices)
       => /\ bluetooth_devices' = EmptyMap
          /\ bluetooth_tx' = <<"No BT">>]_vars

ConnectionFailureEndsTask ==
    /\ [](pc = "connection_failed" =>
            /\ bluetooth_devices = EmptyMap
            /\ battery_tx = <<>>
            /\ bluetooth_tx = <<>>
            /\ msg = NoMsg)
    /\ [][pc = "connection_failed" => pc' = "connection_failed"]_vars

\* C22 witness: the connection failed, and the Bluetooth sender was set since.
ConnectionFailureEndsTaskWitness ==
    /\ pc = "connection_failed"
    /\ BLUETOOTH_SENDER

\* C23: a send on the battery or the Bluetooth channel is possible in every
\* state, whatever the channel holds and whatever the presentation tasks have
\* done; and with no step of a presentation task assumed, every string the task
\* has to send is sent.
SendNeverBlocks ==
    /\ [](Len(battery_tx) < MaxSent => ENABLED SendBattery)
    /\ []((BLUETOOTH_SENDER /\ Len(bluetooth_tx) < MaxSent) => ENABLED SendBluetooth)
    /\ <>(Len(battery_tx) = MaxSent /\ Len(bluetooth_tx) = MaxSent)

\* C23 witness: every string was sent on both channels and none was received:
\* the labels are as they were built.
SendNeverBlocksWitness ==
    /\ Len(battery_tx) = MaxSent
    /\ battery_rx = battery_tx
    /\ Len(bluetooth_tx) = MaxSent
    /\ bluetooth_rx = bluetooth_tx
    /\ battery_label = BatteryGlyph \o " ??%"
    /\ bluetooth_label = "No BT"

\* the channel holds the newest of the strings sent, in the order they were sent
QueuedInOrder(tx, rx) ==
    /\ Len(rx) <= Len(tx)
    /\ rx = SubSeq(tx, Len(tx) - Len(rx) + 1, Len(tx))

\* the newest string sent that is no longer in the channel, or the label's first text
LatestReceived(tx, rx, first) ==
    IF Len(tx) = Len(rx) THEN first ELSE tx[Len(tx) - Len(rx)]

\* the channel is empty and the label shows the last string sent, if any
CaughtUp(tx, rx, label) == rx = <<>> /\ (tx # <<>> => label = tx[Len(tx)])

\* C24: each channel holds the strings sent and not yet received in the order
\* they were sent; a receive takes the oldest of them, whole, and makes it the
\* label's text, so the label shows the string received last; receiving a
\* string equal to the label's text leaves the label as it is; and, the
\* presentation tasks being scheduled fairly, in the end the channels are empty
\* and each label shows the last string sent.
LabelShowsLatest ==
    /\ [](/\ QueuedInOrder(battery_tx, battery_rx)
          /\ QueuedInOrder(bluetooth_tx, bluetooth_rx)
          /\ battery_label = LatestReceived(battery_tx, battery_rx, BatteryGlyph \o " ??%")
          /\ bluetooth_label = LatestReceived(bluetooth_tx, bluetooth_rx, "No BT"))
    /\ [][/\ Len(battery_rx') < Len(battery_rx) =>
                /\ battery_rx' = Tail(battery_rx)
                /\ battery_label' = Head(battery_rx)
          /\ Len(bluetooth_rx') < Len(bluetooth_rx) =>
                /\ bluetooth_rx' = Tail(bluetooth_rx)
                /\ bluetooth_label' = Head(bluetooth_rx)
          /\ (BatteryRecv /\ Head(battery_rx) = battery_label) =>
                UNCHANGED <<battery_label, bluetooth_label>>
          /\ (BluetoothRecv /\ Head(bluetooth_rx) = bluetooth_label) =>
                UNCHANGED <<battery_label, bluetooth_label>>]_vars
    /\ <>[](/\ CaughtUp(battery_tx, battery_rx, battery_label)
            /\ CaughtUp(bluetooth_tx, bluetooth_rx, bluetooth_label))

\* C24 witness: on the battery channel a string was received twice in a row
\* after another one and the label shows it; on the Bluetooth channel the
\* label shows the first string while the second is still in the channel.
LabelShowsLatestWitness ==
    /\ battery_tx = <<"", BatteryText(465), BatteryText(465)>>
    /\ battery_rx = <<>>
    /\ battery_label = BatteryText(465)
    /\ bluetooth_tx = <<"P60", "No BT">>
    /\ bluetooth_rx = <<"No BT">>
    /\ bluetooth_label = "P60"

\* the name an inventory object reports: the string in "Alias", or in "Name"
\* when there is no "Alias"
ReportedName(interfaces) ==
    IF interfaces.Device1 = None THEN None
    ELSE LET props == interfaces.Device1[1]
         IN  IF props.Alias # None
             THEN IF props.Alias[1].t = "Str" THEN Some(props.Alias[1].chars) ELSE None
             ELSE IF props.Name # None /\ props.Name[1].t = "Str"
                  THEN Some(props.Name[1].chars) ELSE None

\* the percentage an inventory object reports: the byte in "Percentage"
ReportedPercentage(interfaces) ==
    IF interfaces.Battery1 = None THEN None
    ELSE LET props == interfaces.Battery1[1]
         IN  IF props.Percentage # None /\ props.Percentage[1].t = "U8"
             THEN Some(props.Percentage[1].n) ELSE None

\* C25: after the snapshot loop a path is a key of the registry exactly if its
\* inventory object reports a name, the battery interface or the media
\* interface, and the record has these facts as its fields.
SnapshotSeeding ==
    pc = "subscribe" =>
        \A p \in Paths :
            LET object == msg.objects[p]
            IN  /\ p \in DOMAIN bluetooth_devices <=>
                      /\ object # None
                      /\ \/ ReportedName(object[1]) # None
                         \/ object[1].Battery1 # None
                         \/ object[1].MediaControl1
                /\ p \in DOMAIN bluetooth_devices =>
                      /\ bluetooth_devices[p].device_path = p
                      /\ bluetooth_devices[p].has_battery = (object[1].Battery1 # None)
                      /\ bluetooth_devices[p].battery_percentage = ReportedPercentage(object[1])
                      /\ bluetooth_devices[p].has_media = object[1].MediaControl1
                      /\ bluetooth_devices[p].device_name = ReportedName(object[1])

\* C25 witness: the inventory had an object with a name alone and an object
\* with Device1 but no name; the registry has the first object only.
SnapshotSeedingWitness ==
    /\ pc = "subscribe"
    /\ msg.objects[Dev1] =
          Some([Device1 |-> Some([Alias |-> None,
                                  Name |-> Some([t |-> "Str", chars |-> PixelBuds])]),
                Battery1 |-> None, MediaControl1 |-> FALSE])
    /\ msg.objects[Dev2] =
          Some([Device1 |-> Some([Alias |-> None, Name |-> None]),
                Battery1 |-> None, MediaControl1 |-> FALSE])
    /\ DOMAIN bluetooth_devices = {Dev1}
    /\ bluetooth_devices[Dev1] = BluetoothDevice(Dev1, FALSE, FALSE, None, Some(PixelBuds))

\* C26: an InterfacesRemoved whose path is no key of the registry leaves the
\* registry as it is, whatever its array lists.
RemovedUnknownIsNoOp ==
    [][(/\ Handles
        /\ Classify(msg) = "InterfacesRemoved"
        /\ RemovedParses(msg.body)
        /\ msg.body.fields[1].s \notin DOMAIN bluetooth_devices)
       => bluetooth_devices' = bluetooth_devices]_vars

\* C26 witness: an InterfacesRemoved listing the three interfaces was handled
\* for a path that is no key, next to the full record of another path.
RemovedUnknownIsNoOpWitness ==
    /\ pc = "loop"
    /\ msg = Removed(Body(<<ObjectPath(Dev2),
                            Array(<<Str(Battery1), Str(MediaControl1), Str(Device1)>>)>>))
    /\ DOMAIN bluetooth_devices = {Dev1}
    /\ bluetooth_devices[Dev1] = BluetoothDevice(Dev1, TRUE, TRUE, Some(60), Some(PixelBuds))

\* the name a Device1 dictionary carries: the string in "Name"
CarriedName(device1) ==
    IF device1.Name # None /\ device1.Name[1].t = "Str"
    THEN Some(device1.Name[1].chars)
    ELSE None

\* C27: after an InterfacesAdded that carries Device1 the registry has a record
\* at the signal's path and its name is the name the signal carries, whatever
\* the name of the record was before.
AddedNameReplaces ==
    [][(/\ Handles
        /\ Classify(msg) = "InterfacesAdded"
        /\ AddedParses(msg.body)
        /\ msg.body.fields[1].t = "ObjectPath"
        /\ msg.body.fields[2].Device1 # None
        /\ msg.body.fields[2].Device1[1].t = "Dict")
       => LET path == msg.body.fields[1].s
          IN  /\ path \in DOMAIN bluetooth_devices'
              /\ bluetooth_devices'[path].device_name =
                    CarriedName(msg.body.fields[2].Device1[1])]_vars

\* C27 witness: an InterfacesAdded carrying Device1 alone, with the name
\* "Headset", was handled for a record that has battery information; the record
\* has that name, and the other record has kept its own.
AddedNameReplacesWitness ==
    /\ pc = "loop"
    /\ msg = Added(Body(<<ObjectPath(Dev1),
                          [t |-> "Dict",
                           Device1 |-> Some([t |-> "Dict",
                                             Name |-> Some([t |-> "Str", chars |-> Headset])]),
                           MediaControl1 |-> None,
                           Battery1 |-> None]>>))
    /\ DOMAIN bluetooth_devices = {Dev1, Dev2}
    /\ bluetooth_devices[Dev1] = BluetoothDevice(Dev1, TRUE, FALSE, Some(60), Some(Headset))
    /\ bluetooth_devices[Dev2] = BluetoothDevice(Dev2, TRUE, FALSE, Some(60), Some(PixelBuds))

\* C28: after an InterfacesAdded that carries Battery1 without "Percentage" the
\* registry has a record at the signal's path with has_battery set and no
\* percentage, and the string sent, the sender being set, is the display
\* string of the other records.
AddedBatteryWithoutPercentage ==
    [][(/\ Handles
        /\ Classify(msg) = "InterfacesAdded"
        /\ AddedParses(msg.body)
        /\ msg.body.fields[1].t = "ObjectPath"
        /\ msg.body.fields[2].Battery1 # None
        /\ msg.body.fields[2].Battery1[1].t = "Dict"
        /\ msg.body.fields[2].Battery1[1].Percentage = None)
       => LET path == msg.body.fields[1].s
          IN  /\ path \in DOMAIN bluetooth_devices'
              /\ bluetooth_devices'[path].has_battery
              /\ bluetooth_devices'[path].battery_percentage = None
              /\ path \notin DOMAIN bluetooth_devices =>
                    bluetooth_devices'[path].has_media
                        = (msg.body.fields[2].MediaControl1 # None)
              /\ BLUETOOTH_SENDER =>
                    /\ Len(bluetooth_tx') = 1
                    /\ bluetooth_tx'[1] \in
                          DisplayStrings(Remove(bluetooth_devices', path))]_vars

\* C28 witness: an InterfacesAdded carrying Battery1 without "Percentage" was
\* handled for a path that was no key, next to a record with name and
\* percentage; the new record has has_battery alone and "P60" was sent.
AddedBatteryWithoutPercentageWitness ==
    /\ pc = "loop"
    /\ BLUETOOTH_SENDER
    /\ msg = Added(Body(<<ObjectPath(Dev2),
                          [t |-> "Dict",
                           Device1 |-> None,
                           MediaControl1 |-> None,
                           Battery1 |-> Some([t |-> "Dict", Percentage |-> None])]>>))
    /\ DOMAIN bluetooth_devices = {Dev1, Dev2}
    /\ bluetooth_devices[Dev1] = BluetoothDevice(Dev1, TRUE, FALSE, Some(60), Some(PixelBuds))
    /\ bluetooth_devices[Dev2] = BluetoothDevice(Dev2, TRUE, FALSE, None, None)
    /\ bluetooth_tx = <<"P60">>

\* C29: after a PropertiesChanged for MediaControl1 the registry has a record at
\* the message's path with has_media set; the other fields of the record are
\* as before, or those of a record with has_media alone if the path was no key;
\* the records of the other paths are as before.
ChangedMediaSetsHasMedia ==
    [][(/\ Handles
        /\ Classify(msg) = "PropertiesChanged"
        /\ ChangedParses(msg.body)
        /\ ChangedInterface(msg.body) = MediaControl1)
       => LET path == msg.path[1]
              new == bluetooth_devices'[path]
          IN  /\ DOMAIN bluetooth_devices' = DOMAIN bluetooth_devices \cup {path}
              /\ new.has_media
              /\ new.device_path = path
              /\ IF path \in DOMAIN bluetooth_devices
                 THEN /\ new.has_battery = bluetooth_devices[path].has_battery
                      /\ new.battery_percentage = bluetooth_devices[path].battery_percentage
                      /\ new.device_name = bluetooth_devices[path].device_name
                 ELSE /\ ~new.has_battery
                      /\ new.battery_percentage = None
                      /\ new.device_name = None
              /\ \A q \in DOMAIN bluetooth_devices \ {path} :
                    bluetooth_devices'[q] = bluetooth_devices[q]]_vars

\* C29 witness: a PropertiesChanged for MediaControl1 was handled at the path of
\* a record with name and battery information, next to another record.
ChangedMediaSetsHasMediaWitness ==
    /\ pc = "loop"
    /\ msg = Changed(Dev1, Body(<<Str(MediaControl1),
                                  [t |-> "Dict", Percentage |-> None],
                                  NoInvalidated>>))
    /\ DOMAIN bluetooth_devices = {Dev1, Dev2}
    /\ bluetooth_devices[Dev1] = BluetoothDevice(Dev1, TRUE, TRUE, Some(60), Some(PixelBuds))
    /\ bluetooth_devices[Dev2] = BluetoothDevice(Dev2, FALSE, TRUE, None, None)

\* C30: a PropertiesChanged whose path is not the system battery object sends
\* nothing on the battery channel, whatever interface it names.
BatteryMatchesPath ==
    [][(/\ Handles
        /\ Classify(msg) = "PropertiesChanged"
        /\ msg.path[1] # BatteryPath)
       => battery_tx' = battery_tx]_vars

\* C31: a PropertiesChanged for Battery1 with percentage p at a path that is no
\* key leaves there a record with p and no name; an InterfacesAdded that then
\* carries Device1 with name n, and no Battery1, for a record with percentage p
\* and no name leaves the record with p and n, and every display string of the
\* registry has the token made of the first character of n and of p.
LateNameReconciliation ==
    [][/\ (/\ Handles
            /\ Classify(msg) = "PropertiesChanged"
            /\ ChangedParses(msg.body)
            /\ ChangedInterface(msg.body) = Battery1
            /\ msg.body.fields[2].t = "Dict"
            /\ msg.body.fields[2].Percentage # None
            /\ msg.body.fields[2].Percentage[1].t = "U8"
            /\ msg.path[1] \notin DOMAIN bluetooth_devices)
           => /\ msg.path[1] \in DOMAIN bluetooth_devices'
              /\ bluetooth_devices'[msg.path[1]].battery_percentage =
                    Some(msg.body.fields[2].Percentage[1].n)
              /\ bluetooth_devices'[msg.path[1]].device_name = None
       /\ (/\ Handles
            /\ Classify(msg) = "InterfacesAdded"
            /\ AddedParses(msg.body)
            /\ msg.body.fields[1].t = "ObjectPath"
            /\ msg.body.fields[2].Battery1 = None
            /\ msg.body.fields[2].Device1 # None
            /\ msg.body.fields[2].Device1[1].t = "Dict"
            /\ msg.body.fields[2].Device1[1].Name # None
            /\ msg.body.fields[2].Device1[1].Name[1].t = "Str"
            /\ msg.body.fields[1].s \in DOMAIN bluetooth_devices
            /\ bluetooth_devices[msg.body.fields[1].s].battery_percentage # None
            /\ bluetooth_devices[msg.body.fields[1].s].device_name = None)
           => LET path == msg.body.fields[1].s
                  n == msg.body.fields[2].Device1[1].Name[1].chars
                  p == bluetooth_devices[path].battery_percentage[1]
              IN  /\ path \in DOMAIN bluetooth_devices'
                  /\ bluetooth_devices'[path].battery_percentage = Some(p)
                  /\ bluetooth_devices'[path].device_name = Some(n)
                  /\ \A string \in DisplayStrings(bluetooth_devices') :
                        ContainsToken(string, Head(n) \o ToString(p))]_vars

\* C31 witness: an InterfacesAdded carrying Device1 alone was handled for a
\* path whose record has a percentage, the battery interface and nothing else
\* but the name: the record a PropertiesChanged made, with the name added.
LateNameReconciliationWitness ==
    /\ pc = "loop"
    /\ msg = Added(Body(<<ObjectPath(Dev1),
                          [t |-> "Dict",
                           Device1 |-> Some([t |-> "Dict",
                                             Name |-> Some([t |-> "Str",
                                                            chars |-> PixelBuds])]),
                           MediaControl1 |-> None,
                           Battery1 |-> None]>>))
    /\ DOMAIN bluetooth_devices = {Dev1}
    /\ bluetooth_devices[Dev1] = BluetoothDevice(Dev1, TRUE, FALSE, Some(60), Some(PixelBuds))
    /\ DisplayStrings(bluetooth_devices) = {"P60"}

\* the orders in which the three interfaces can be delivered
InterfaceOrders ==
    {order \in [1..3 -> InterfacesOfInterest] :
        \A i, j \in 1..3 : i # j => order[i] # order[j]}

\* the dictionary of an InterfacesAdded that carries one of the interfaces alone
OnlyInterface(interfaces, i) ==
    [t |-> "Dict",
     Device1 |-> IF i = Device1 THEN interfaces.Device1 ELSE None,
     MediaControl1 |-> IF i = MediaControl1 THEN interfaces.MediaControl1 ELSE None,
     Battery1 |-> IF i = Battery1 THEN interfaces.Battery1 ELSE None]

RECURSIVE DeliverSeparately(_, _, _, _)
\* the registry after one InterfacesAdded per interface, handled in the order given
DeliverSeparately(devs, object_path_value, interfaces, order) ==
    IF order = <<>> THEN devs
    ELSE DeliverSeparately(
            AfterInterfacesAdded(devs, Body(<<object_path_value,
                                              OnlyInterface(interfaces, Head(order))>>)),
            object_path_value, interfaces, Tail(order))

\* C32: the registry an InterfacesAdded leaves is the registry that one
\* InterfacesAdded per carried interface leaves, in each of the six orders.
OrderIndependence ==
    [][(/\ Handles
        /\ Classify(msg) = "InterfacesAdded"
        /\ AddedParses(msg.body)
        /\ msg.body.fields[1].t = "ObjectPath")
       => \A order \in InterfaceOrders :
            DeliverSeparately(bluetooth_devices, msg.body.fields[1], msg.body.fields[2],
                              <<order[1], order[2], order[3]>>)
                = bluetooth_devices']_vars

\* C32 witness: an InterfacesAdded carrying the three interfaces was handled for
\* a path that was the only key or no key; the record has the three facts.
OrderIndependenceWitness ==
    /\ pc = "loop"
    /\ msg = Added(Body(<<ObjectPath(Dev1), FullInterfaces>>))
    /\ DOMAIN bluetooth_devices = {Dev1}
    /\ bluetooth_devices[Dev1] = BluetoothDevice(Dev1, TRUE, TRUE, Some(60), Some(PixelBuds))

\* C33: every record of the registry that has a percentage has has_battery set.
PercentageImpliesBattery ==
    \A p \in DOMAIN bluetooth_devices :
        bluetooth_devices[p].battery_percentage # None => bluetooth_devices[p].has_battery

\* C34: a PropertiesChanged for Battery1 whose change set has no byte
\* "Percentage" leaves the percentage of the record at its path as it was.
PercentageNotLost ==
    [][(/\ Handles
        /\ Classify(msg) = "PropertiesChanged"
        /\ ChangedParses(msg.body)
        /\ ChangedInterface(msg.body) = Battery1
        /\ process_bluetooth_battery_interface(msg.body.fields[2]) = None
        /\ msg.path[1] \in DOMAIN bluetooth_devices)
       => /\ msg.path[1] \in DOMAIN bluetooth_devices'
          /\ bluetooth_devices'[msg.path[1]].battery_percentage =
                bluetooth_devices[msg.path[1]].battery_percentage]_vars

\* C35: when the task sends the display string of the snapshot, BLUETOOTH_SENDER
\* is set and the string is appended to the Bluetooth channel.
SenderSetBeforeUse ==
    [][(pc = "get_managed_objects" /\ pc' = "subscribe")
       => /\ BLUETOOTH_SENDER
          /\ Len(bluetooth_tx') = Len(bluetooth_tx) + 1
          /\ bluetooth_tx'[Len(bluetooth_tx')] \in DisplayStrings(bluetooth_devices')]_vars

\* the task awaits the stream and no delivered signal is waiting
Quiescent == pc = "listening" /\ stream = <<>>

\* the registry has, for each path, the interfaces the service has there
ReflectsService ==
    \A p \in Paths :
        /\ p \in DOMAIN bluetooth_devices <=> bluez_objects[p] # {}
        /\ p \in DOMAIN bluetooth_devices =>
              /\ bluetooth_devices[p].has_battery = (Battery1 \in bluez_objects[p])
              /\ bluetooth_devices[p].has_media = (MediaControl1 \in bluez_objects[p])

\* C36: whenever the task awaits the stream and every delivered signal has
\* been handled, the registry has the interfaces the Bluetooth service has.
NoChangeMissed == Quiescent => ReflectsService

\* C37: the handling of a PropertiesChanged for org.freedesktop.UPower.Device
\* leaves the registry as it is and sends nothing on the Bluetooth channel; the
\* handling of an InterfacesAdded, of an InterfacesRemoved and of a
\* PropertiesChanged for an org.bluez interface sends nothing on the battery
\* channel.
ChannelIsolation ==
    [][Handles =>
        /\ (/\ Classify(msg) = "PropertiesChanged"
             /\ ChangedParses(msg.body)
             /\ ChangedInterface(msg.body) = UPowerDevice)
            => /\ bluetooth_devices' = bluetooth_devices
               /\ bluetooth_tx' = bluetooth_tx
        /\ (\/ Classify(msg) \in {"InterfacesAdded", "InterfacesRemoved"}
             \/ /\ Classify(msg) = "PropertiesChanged"
                /\ ChangedParses(msg.body)
                /\ ChangedInterface(msg.body) \in InterfacesOfInterest)
            => battery_tx' = battery_tx]_vars

\* C37 witness: with a record in the registry and the sender set, a
\* PropertiesChanged for org.freedesktop.UPower.Device with a double was
\* handled: the battery text was sent and nothing on the Bluetooth channel.
ChannelIsolationWitness ==
    /\ pc = "loop"
    /\ BLUETOOTH_SENDER
    /\ msg = Changed(BatteryPath, Body(<<Str(UPowerDevice),
                                         [t |-> "Dict", Percentage |-> Some(F64(465))],
                                         NoInvalidated>>))
    /\ DOMAIN bluetooth_devices = {Dev1}
    /\ bluetooth_devices[Dev1].battery_percentage = Some(60)
    /\ battery_tx = <<BatteryText(465)>>
    /\ bluetooth_tx = <<>>


\* C38: a title of at most max_length characters is returned unchanged; a
\* longer one is returned as a string of at most max_length characters, the
\* ellipsis included, made of a prefix of the title, one ellipsis and a suffix
\* of the title; and the call does not panic on the arithmetic, whatever
\* max_length is.
TitleFormatted ==
    title_update.formatted # None =>
        LET title == title_update.title
            max_length == title_update.max_length
            outcome == title_update.formatted[1]
        IN  /\ ~outcome.panic
            /\ IF Len(title) <= max_length
               THEN outcome.chars = title
               ELSE /\ Len(outcome.chars) <= max_length
                    /\ \E i, j \in 0..Len(title) :
                          outcome.chars = SubSeq(title, 1, i) \o <<Ellipsis>>
                                            \o SubSeq(title, j + 1, Len(title))
============================================================================
